---- MODULE Spec2Model ----
(***************************************************************************)
(* StageCraft: the stage-transition engine of validators.py and the        *)
(* handlers of routes.py that use it, for one work item.                   *)
(*                                                                         *)
(* Strings that the code inspects (reasons, references) are sequences of   *)
(* one-character strings, so that strip(), len() and the keyword / pattern *)
(* tests are computed.  Stage names, roles and artifact types are only     *)
(* compared, and are TLA+ strings.  Python's None is the value None.       *)
(* Time is counted in half days since the work item was created.           *)
(***************************************************************************)
EXTENDS Integers, Sequences, FiniteSets, Bags, TLC

VARIABLES
    owner_id,            \* WorkItem.owner_id
    current_stage,       \* WorkItem.current_stage
    regression_count,    \* WorkItem.regression_count
    transition_count,    \* WorkItem.transition_count
    last_transition_at,  \* WorkItem.last_transition_at
    logs,                \* TransitionLog rows of the item, in insertion order
    artifacts,           \* Artifact rows of the item: a bag of [stage, artifact_type]
    now,                 \* datetime.utcnow(), in half days since created_at
    pending,             \* the transition requests evaluated and not yet committed
    submissions,         \* the artifact submissions evaluated and not yet committed
    last,                \* the last operation carried out and its response
    assignee,            \* WorkItem.assignee
    code_files,          \* CodeFile rows of the item: [branch, filename, content]
    workspace_branches   \* WorkspaceBranch rows of the item: [name, created_by_id, is_merged]

vars == <<owner_id, current_stage, regression_count, transition_count, last_transition_at,
          logs, artifacts, now, pending, submissions, last, assignee, code_files,
          workspace_branches>>

\* The part of the state the code workspace handlers read and write
workspace == <<assignee, code_files, workspace_branches>>

\* Python's None: for names (stages, roles, types, user ids) and for strings
None == "None"
NoneStr == <<"None">>

-----------------------------------------------------------------------------
(* validators.py: configuration *)

STAGES == <<"Requirement", "Design", "Implementation", "Testing", "Release">>

StageSet == {STAGES[i] : i \in 1..Len(STAGES)}

REQUIRED_ARTIFACTS ==
    [s \in StageSet |->
        CASE s = "Requirement"    -> <<"Requirement Document", "Stakeholder Approval">>
          [] s = "Design"         -> <<"High-Level Design Document", "Architecture Diagram",
                                       "Data Model">>
          [] s = "Implementation" -> <<"Source Code Reference", "Unit Test Coverage Report",
                                       "API Specification">>
          [] s = "Testing"        -> <<"Test Plan", "Test Cases", "Test Execution Report",
                                       "Defect Summary">>
          [] s = "Release"        -> <<"Release Notes", "Deployment Checklist",
                                       "Production Approval Record">>]

\* The two shapes of pattern in ARTIFACT_QUALITY_RULES.
ARTIFACT_QUALITY_RULES ==
    [t \in {"Source Code Reference", "Unit Test Coverage Report", "API Specification",
            "Release Notes", "Deployment Checklist"} |->
        IF t = "Source Code Reference" THEN "commit" ELSE "url"]

STAGE_TIMEOUT_DAYS ==
    [s \in StageSet |->
        CASE s = "Requirement"    -> 7
          [] s = "Design"         -> 10
          [] s = "Implementation" -> 14
          [] s = "Testing"        -> 7
          [] s = "Release"        -> 3]

MIN_REGRESSION_REASON_LENGTH == 30
MAX_ALLOWED_REGRESSIONS == 3
MAX_ALLOWED_TRANSITIONS == 20

WEAK_REASON_INDICATORS ==
    { <<"f","i","x","e","d">>, <<"o","k">>, <<"d","o","n","e">>, <<"b","u","g">>,
      <<"e","r","r","o","r">>, <<"o","o","p","s">>, <<"t","y","p","o">>,
      <<"?","?","?">>, <<"w","h","a","t","e","v","e","r">> }

REQUIRED_APPROVER_ROLES ==
    [s \in StageSet |->
        CASE s = "Requirement"    -> {"Architect", "Admin", "Manager"}
          [] s = "Design"         -> {"Architect", "Admin", "Manager"}
          [] s = "Implementation" -> {"Developer", "Admin", "Manager"}
          [] s = "Testing"        -> {"Tester", "Admin", "Manager"}
          [] s = "Release"        -> {"Manager", "Admin"}]

-----------------------------------------------------------------------------
(* Python string primitives on sequences of characters *)

Whitespace == {" ", "\t", "\n"}

\* The first index from i upwards whose character is not whitespace (Len(s)+1 if none)
RECURSIVE skip_left(_, _)
skip_left(s, i) ==
    IF i > Len(s) THEN i
    ELSE IF s[i] \in Whitespace THEN skip_left(s, i + 1) ELSE i

\* The last index from i downwards whose character is not whitespace (0 if none)
RECURSIVE skip_right(_, _)
skip_right(s, i) ==
    IF i < 1 THEN i
    ELSE IF s[i] \in Whitespace THEN skip_right(s, i - 1) ELSE i

\* str.strip()
strip(s) == SubSeq(s, skip_left(s, 1), skip_right(s, Len(s)))

\* str.lower(), on the letters the model's strings use
lower(s) ==
    [i \in 1..Len(s) |->
        CASE s[i] = "O" -> "o"
          [] s[i] = "K" -> "k"
          [] s[i] = "B" -> "b"
          [] OTHER -> s[i]]

\* w in s, for strings
contains(s, w) ==
    \E i \in 1..(Len(s) - Len(w) + 1) : \A j \in 1..Len(w) : s[i + j - 1] = w[j]

\* Python truthiness of an optional string of characters: "not x" is ~truthy(x)
truthy(x) == x # NoneStr /\ x # <<>>

\* Python truthiness of an optional name
truthy_name(x) == x # None /\ x # ""

-----------------------------------------------------------------------------
(* validators.py: functions.  wi is the WorkItem object the caller loaded,   *)
(* L the TransitionLog rows and A the Artifact rows the queries return.      *)

is_valid_stage(stage) == stage \in StageSet

\* STAGES.index(stage), 0-based, or -1
\* STAGES.index, on the stages
STAGES_index == [stage \in StageSet |-> (CHOOSE i \in 1..Len(STAGES) : STAGES[i] = stage) - 1]

get_stage_index(stage) == IF is_valid_stage(stage) THEN STAGES_index[stage] ELSE -1

get_required_artifacts(stage) ==
    IF stage \in DOMAIN REQUIRED_ARTIFACTS THEN REQUIRED_ARTIFACTS[stage] ELSE <<>>

\* Variant: the newest log entry is not looked at
count_regressions_but_last(L) ==
    Cardinality({i \in 2..(Len(L) - 1) :
        get_stage_index(L[i].to_stage) < get_stage_index(L[i-1].to_stage)})

count_regressions(L) ==
    Cardinality({i \in 2..Len(L) :
        get_stage_index(L[i].to_stage) < get_stage_index(L[i-1].to_stage)})

count_total_transitions(L) == Len(L)

\* Variant: the time since the item was created
get_time_since_created(wi, L, t_now) == t_now - wi.created_at

get_time_in_current_stage(wi, L, t_now) ==
    LET entries == {i \in 1..Len(L) : L[i].to_stage = wi.current_stage}
        start == IF entries # {}
                 THEN L[CHOOSE i \in entries :
                            \A j \in entries : L[j].transitioned_at <= L[i].transitioned_at
                       ].transitioned_at
                 ELSE wi.created_at
    IN t_now - start

\* Variant: a stage never counts as exited
was_stage_exited_never(L, stage) == FALSE

was_stage_exited(L, stage) == \E i \in 1..Len(L) : L[i].from_stage = stage

is_stage_locked(wi, L, stage) ==
    IF stage # wi.current_stage
    THEN <<TRUE, <<"Cannot modify past stage">> >>
    ELSE IF was_stage_exited(L, stage)
    THEN <<TRUE, <<"Stage has already been exited">> >>
    ELSE <<FALSE, <<"Stage still active">> >>

\* Variant: a duplicate only from the second artifact of the type on
has_duplicate_artifact_twice(A, stage, artifact_type) ==
    CopiesIn([stage |-> stage, artifact_type |-> artifact_type], A) >= 2

has_duplicate_artifact(A, stage, artifact_type) ==
    CopiesIn([stage |-> stage, artifact_type |-> artifact_type], A) >= 1

HexDigits == {"0","1","2","3","4","5","6","7","8","9","a","b","c","d","e","f"}

\* Variant: the patterns end without "$"
re_match_open(pattern, s) ==
    IF pattern = "commit"
    THEN /\ Len(s) >= 7
         /\ \A i \in 1..7 : s[i] \in HexDigits
    ELSE \/ Len(s) >= 7 /\ SubSeq(s, 1, 7) = <<"h","t","t","p",":","/","/">>
         \/ Len(s) >= 8 /\ SubSeq(s, 1, 8) = <<"h","t","t","p","s",":","/","/">>

\* re.match(pattern, s) for the two patterns of ARTIFACT_QUALITY_RULES
re_match(pattern, s) ==
    IF pattern = "commit"
    THEN /\ Len(s) \in {40, 7}
         /\ \A i \in 1..Len(s) : s[i] \in HexDigits
    ELSE \/ Len(s) >= 7 /\ SubSeq(s, 1, 7) = <<"h","t","t","p",":","/","/">>
         \/ Len(s) >= 8 /\ SubSeq(s, 1, 8) = <<"h","t","t","p","s",":","/","/">>

validate_artifact_quality(artifact_type, reference) ==
    IF artifact_type \notin DOMAIN ARTIFACT_QUALITY_RULES
    THEN <<TRUE, <<"No quality rule">> >>
    ELSE IF ~truthy(reference) \/ ~truthy(strip(reference))
    THEN <<FALSE, <<"Reference is required">> >>
    ELSE IF ~re_match(ARTIFACT_QUALITY_RULES[artifact_type], strip(reference))
    THEN <<FALSE, <<"Invalid format">> >>
    ELSE <<TRUE, <<"Reference format valid">> >>

\* The stage after a stage, or the stage itself if it is the last
stage_after(stage) ==
    IF is_valid_stage(stage) /\ get_stage_index(stage) + 2 <= Len(STAGES)
    THEN STAGES[get_stage_index(stage) + 2] ELSE stage

\* Variant: the approver roles of the stage being entered decide
validate_stage_approval_entered(stage, user_role) ==
    IF ~truthy_name(user_role)
    THEN <<FALSE, <<"User role is required to transition stages in Enterprise mode.">> >>
    ELSE IF user_role \notin REQUIRED_APPROVER_ROLES[stage_after(stage)]
    THEN <<FALSE, <<"Unauthorized: Only ", stage_after(stage)>> >>
    ELSE <<TRUE, <<"Approval role verified">> >>

validate_stage_approval(stage, user_role) ==
    IF ~truthy_name(user_role)
    THEN <<FALSE, <<"User role is required to transition stages in Enterprise mode.">> >>
    ELSE IF stage \notin DOMAIN REQUIRED_APPROVER_ROLES
              \/ REQUIRED_APPROVER_ROLES[stage] = {}
    THEN <<TRUE, <<"No special approval required">> >>
    ELSE IF user_role \notin REQUIRED_APPROVER_ROLES[stage]
    THEN <<FALSE, <<"Unauthorized: Only ", stage>> >>
    ELSE <<TRUE, <<"Approval role verified">> >>

\* Variant: complete as soon as one required type is recorded
check_artifacts_complete_any(wi, A, for_stage) ==
    LET stage == IF truthy_name(for_stage) THEN for_stage ELSE wi.current_stage
        required == get_required_artifacts(stage)
        present == {a.artifact_type : a \in {b \in BagToSet(A) : b.stage = stage}}
        missing == SelectSeq(required, LAMBDA r : r \notin present)
    IN IF required = <<>> THEN <<TRUE, <<>> >> ELSE <<Len(missing) < Len(required), missing>>

check_artifacts_complete(wi, A, for_stage) ==
    LET stage == IF truthy_name(for_stage) THEN for_stage ELSE wi.current_stage
        required == get_required_artifacts(stage)
        present == {a.artifact_type : a \in {b \in BagToSet(A) : b.stage = stage}}
        missing == SelectSeq(required, LAMBDA r : r \notin present)
    IN IF required = <<>> THEN <<TRUE, <<>> >> ELSE <<Len(missing) = 0, missing>>

\* The dict "extra" of validate_transition
extra_of(L) ==
    [regression_count |-> count_regressions(L),
     total_transitions |-> count_total_transitions(L)]

with_warning(extra, w) ==
    [k \in DOMAIN extra \cup {"warning"} |-> IF k = "warning" THEN w ELSE extra[k]]

\* Variant: a result that carries a warning is a refusal
Result_unless_warned(allowed, message, meta) ==
    [allowed |-> allowed /\ "warning" \notin DOMAIN meta, message |-> message, meta |-> meta]

Result(allowed, message, meta) == [allowed |-> allowed, message |-> message, meta |-> meta]

\* Variant: a Manager passes the ownership gate as an Admin does
not_owner_nor_manager(wi, user_role, requester_id) ==
    /\ wi.owner_id # None /\ requester_id # None
    /\ requester_id # wi.owner_id /\ user_role \notin {"Admin", "Manager"}

\* The ownership gate rejects: an owner is set, a requester is given, they differ
\* and the role is not Admin
not_owner(wi, user_role, requester_id) ==
    /\ wi.owner_id # None /\ requester_id # None
    /\ requester_id # wi.owner_id /\ user_role # "Admin"

\* The quota gate rejects
\* Variant: the quota is reached one transition later
quota_passed(extra) == extra.total_transitions > MAX_ALLOWED_TRANSITIONS

quota_reached(extra) == extra.total_transitions >= MAX_ALLOWED_TRANSITIONS

\* Variant: a request for the current stage passes the no-op gate
same_stage_never(curr_idx, targ_idx) == FALSE

\* The no-op gate rejects: the target is the current stage
same_stage(curr_idx, targ_idx) == curr_idx = targ_idx

\* The three directions of a move between two different stages
\* Variant: any higher stage counts as the next one
is_forward_any(curr_idx, targ_idx) == targ_idx > curr_idx

is_forward(curr_idx, targ_idx) == targ_idx = curr_idx + 1

is_skip(curr_idx, targ_idx) == targ_idx > curr_idx + 1

is_regression(curr_idx, targ_idx) == targ_idx < curr_idx

\* The checks of a regression
\* Variant: any role that is given
regression_role_given(user_role) == truthy_name(user_role)

regression_role_ok(user_role) == user_role \in {"Manager", "Admin"}

\* Variant: the ceiling is reached one regression later
regression_ceiling_passed(extra) == extra.regression_count > MAX_ALLOWED_REGRESSIONS

\* Variant: no ceiling
regression_ceiling_never(extra) == FALSE

regression_ceiling_reached(extra) == extra.regression_count >= MAX_ALLOWED_REGRESSIONS

reason_missing(regression_reason) ==
    ~truthy(regression_reason) \/ ~truthy(strip(regression_reason))

\* Variant: a reason of exactly the minimum length is too short
reason_not_longer(reason) == Len(reason) <= MIN_REGRESSION_REASON_LENGTH

reason_too_short(reason) == Len(reason) < MIN_REGRESSION_REASON_LENGTH

\* The clock counts half days
TicksPerDay == 2

\* timedelta.days: the whole days of a time span
days(delta) == delta \div TicksPerDay

\* The stage has timed out after this many days in it
overdue(stage, days_in_stage) ==
    LET timeout == IF stage \in DOMAIN STAGE_TIMEOUT_DAYS
                   THEN STAGE_TIMEOUT_DAYS[stage] ELSE 0
    IN timeout > 0 /\ days_in_stage > timeout

\* The weak keywords in a reason
weak_keywords(reason) ==
    LET low == lower(reason) IN {w \in WEAK_REASON_INDICATORS : contains(low, w)}

validate_transition(wi, L, A, t_now, target_stage, regression_reason, user_role, requester_id) ==
    LET current == wi.current_stage
        curr_idx == get_stage_index(current)
        targ_idx == get_stage_index(target_stage)
        extra == extra_of(L)
        complete == check_artifacts_complete(wi, A, current)
        approval == validate_stage_approval(current, user_role)
        days_in_stage == days(get_time_in_current_stage(wi, L, t_now))
        reason == strip(regression_reason)
        weak == weak_keywords(reason)
    IN
    IF not_owner(wi, user_role, requester_id)
    THEN Result(FALSE, <<"FORBIDDEN", ": Only the workspace owner can request a stage transition.">>, <<>>)
    ELSE IF ~is_valid_stage(target_stage)
    THEN Result(FALSE, <<"Invalid stage: ", target_stage>>, <<>>)
    ELSE IF curr_idx = -1 \/ targ_idx = -1
    THEN Result(FALSE, <<"Internal stage error">>, <<>>)
    ELSE IF same_stage(curr_idx, targ_idx)
    THEN Result(FALSE, <<"Already in stage ", current>>, <<>>)
    ELSE IF quota_reached(extra)
    THEN Result(FALSE, <<"Work item has reached maximum transitions">>, extra)
    ELSE IF is_forward(curr_idx, targ_idx)
    THEN IF ~complete[1]
         THEN Result(FALSE, <<"Cannot advance: missing ">> \o complete[2], extra)
         ELSE IF ~approval[1]
         THEN Result(FALSE, approval[2], extra)
         ELSE Result(TRUE, <<"Transition approved to ", target_stage>>,
                     IF overdue(current, days_in_stage)
                     THEN with_warning(extra, <<"overdue">>)
                     ELSE extra)
    ELSE IF is_skip(curr_idx, targ_idx)
    THEN Result(FALSE, <<"Stage skipping not allowed. Next allowed stage: ",
                         STAGES[(curr_idx + 1) + 1]>>, extra)
    ELSE IF is_regression(curr_idx, targ_idx)
    THEN IF ~regression_role_ok(user_role)
         THEN Result(FALSE, <<"Unauthorized: Only Managers or Admins can approve a regression.">>, extra)
         ELSE IF regression_ceiling_reached(extra)
         THEN Result(FALSE, <<"Maximum regressions reached.">>, extra)
         ELSE IF reason_missing(regression_reason)
         THEN Result(FALSE, <<"Regression justification is required.">>, extra)
         ELSE IF reason_too_short(reason)
         THEN Result(FALSE, <<"Reason must be at least 30 characters.">>, extra)
         ELSE Result(TRUE, <<"Regression allowed">>,
                     IF weak # {}
                     THEN with_warning(extra, <<"weak">>)
                     ELSE extra)
    ELSE Result(FALSE, <<"Invalid transition direction">>, extra)

can_add_artifact(wi, L, A, stage, artifact_type, reference) ==
    LET locked == is_stage_locked(wi, L, stage)
        quality == validate_artifact_quality(artifact_type, reference)
    IN IF locked[1] THEN <<FALSE, locked[2]>>
       ELSE IF has_duplicate_artifact(A, stage, artifact_type)
       THEN <<FALSE, <<"Artifact already exists in stage">> >>
       ELSE IF ~quality[1] THEN <<FALSE, quality[2]>>
       ELSE <<TRUE, <<"Artifact can be added">> >>

-----------------------------------------------------------------------------
(* Requests: the values the handlers read from the session and the JSON body *)

\* Logged-in users; the first one creates the work item.
Users == {"u1", "u2"}

Roles == {"Developer", "Tester", "Architect", "Manager", "Admin"}

\* n copies of the character c
rep(c, n) == [i \in 1..n |-> c]

\* A justification of n letters
text(n) == rep("x", n)

\* A justification of n characters that contains the keyword "ok"
weak_text(n) == <<"O", "k">> \o rep("x", n - 2)

padded(s) == <<" ">> \o s \o <<" ", "\n">>

\* Every value of data["user_role"]: absent (None), empty, or a role name
AllRoleInputs == {None, "", "Guest"} \cup Roles

\* Every value of data["target_stage"]: absent (None), empty, a stage, or another name
AllTargetInputs == {None, "", "Deployed", "FORBIDDEN"} \cup StageSet

\* Values of data["reason"]: absent (the default ""), JSON null (NoneStr), or a string
AllReasonInputs ==
    { <<>>, NoneStr, <<" ", " ">>, text(1),
      text(MIN_REGRESSION_REASON_LENGTH - 1), padded(text(MIN_REGRESSION_REASON_LENGTH - 1)),
      text(MIN_REGRESSION_REASON_LENGTH), padded(text(MIN_REGRESSION_REASON_LENGTH)),
      weak_text(MIN_REGRESSION_REASON_LENGTH), text(MIN_REGRESSION_REASON_LENGTH + 1) }

\* Artifact types that no stage requires
ExtraTypes == {"Meeting Notes"}

RequiredTypes ==
    UNION {{REQUIRED_ARTIFACTS[s][i] : i \in 1..Len(REQUIRED_ARTIFACTS[s])} : s \in StageSet}

\* Values of data["reference"]
AllReferenceInputs ==
    { NoneStr, <<>>, <<" ">>,
      <<"f","b","8","8","1","d","3">>, padded(<<"f","b","8","8","1","d","3">>),
      <<"f","b","8","8","1","d">>, <<"F","B","8","8","1","D","3">>,
      <<"h","t","t","p",":","/","/","x">>, <<"h","t","t","p","s",":","/","/","x">>,
      <<"f","t","p",":","/","/","x">> }

\* The longest history of the specification Spec
MaxLog == 4

\* The most artifacts of types their stage does not require that are submitted
MaxExtra == 1

\* A transition request: the logged-in user and the JSON body
Request(user_id, user_role, target_stage, reason) ==
    [user_id |-> user_id, user_role |-> user_role, target_stage |-> target_stage,
     reason |-> reason]

ValidReason == padded(text(MIN_REGRESSION_REASON_LENGTH))

\* The transition requests the handlers are driven with: a well-formed request of
\* the owner as Manager for every target, and that request with its user, its
\* role or its reason changed.
Requests ==
    {Request("u1", "Manager", t, ValidReason) : t \in {None, "Deployed"} \cup StageSet}
    \cup {Request("u2", r, t, ValidReason) : r \in {"Manager", "Admin"}, t \in StageSet}
    \cup {Request("u1", r, t, ValidReason) : r \in {None, "Developer", "Architect"}, t \in StageSet}
    \cup {Request("u1", "Manager", t, rs) :
             t \in StageSet,
             rs \in {<<>>, NoneStr, padded(text(MIN_REGRESSION_REASON_LENGTH - 1))}}

required_set(stage) ==
    {get_required_artifacts(stage)[i] : i \in 1..Len(get_required_artifacts(stage))}

\* The recorded artifacts of types their stage does not require
extra_artifacts(A) == {a \in BagToSet(A) : a.artifact_type \notin required_set(a.stage)}

\* Submissions to a stage: the types it requires, one it does not, and none
TypeInputs(stage, A) ==
    {None} \cup required_set(stage)
           \cup (IF Cardinality(extra_artifacts(A)) < MaxExtra THEN ExtraTypes ELSE {})

ReferenceInputs ==
    { NoneStr, padded(<<"f","b","8","8","1","d","3">>),
      <<"h","t","t","p","s",":","/","/","x">>, <<"f","t","p",":","/","/","x">> }

\* The requests of the specification SpecDeep, which has no bound on the history:
\* the owner, as Manager, asks for every stage with a valid justification, and
\* required artifacts are submitted with well-formed references.
DeepRequests == {Request("u1", "Manager", t, ValidReason) : t \in StageSet}

DeepReferences ==
    { <<"f","b","8","8","1","d","3">>, <<"h","t","t","p","s",":","/","/","x">> }

-----------------------------------------------------------------------------
(* The state machine: models.py rows and routes.py handlers *)

\* The WorkItem object a handler loads with WorkItem.query.get_or_404(id)
work_item == [owner_id |-> owner_id, current_stage |-> current_stage, created_at |-> 0]

\* TransitionLog(work_item_id, from_stage, to_stage, reason), transitioned_at defaulted
TransitionLog(from_stage, to_stage, reason, at) ==
    [from_stage |-> from_stage, to_stage |-> to_stage, reason |-> reason,
     transitioned_at |-> at]

\* Variant: the newest row is overwritten
insert_log_over(L, log) == IF L = <<>> THEN <<log>> ELSE [L EXCEPT ![Len(L)] = log]

\* db.session.add(log); db.session.commit(): the rows of the item with one more
insert_log(L, log) == Append(L, log)

\* Artifact(work_item_id, stage, artifact_type, ...)
Artifact(stage, artifact_type) == [stage |-> stage, artifact_type |-> artifact_type]

\* The response of a handler: the HTTP status and the JSON body
Response(status, body) == [status |-> status, body |-> body]

\* "FORBIDDEN" in message
in_message(word, message) == \E i \in 1..Len(message) : message[i] = word

\* create_workitem, by the first user
Init ==
    /\ owner_id = "u1"
    /\ current_stage = "Requirement"
    /\ regression_count = 0
    /\ transition_count = 0
    /\ last_transition_at = <<>>
    /\ logs = <<>>
    /\ artifacts = EmptyBag
    /\ now = 0
    /\ pending = EmptyBag
    /\ submissions = EmptyBag
    /\ last = [op |-> "create_workitem", response |-> Response(201, <<>>)]
    /\ assignee = "Unassigned"
    /\ code_files = {}
    /\ workspace_branches = {}

\* transition_stage up to its return for a request that is not carried out, or the
\* verdict it goes on to execute: the response to request r in the current state
transition_response(r) ==
    LET user_role == IF truthy_name(r.user_role) THEN r.user_role ELSE None
        regression_reason == strip(r.reason)
        res == validate_transition(work_item, logs, artifacts, now, r.target_stage,
                   IF regression_reason # <<>> THEN regression_reason ELSE NoneStr,
                   user_role, r.user_id)
    IN
    IF r.reason = NoneStr
    THEN Response(500, <<"AttributeError">>)     \* None.strip()
    ELSE IF ~truthy_name(r.target_stage)
    THEN Response(400, <<"target_stage is required">>)
    ELSE IF ~res.allowed
    THEN Response(IF in_message("FORBIDDEN", res.message) THEN 403 ELSE 400, res)
    ELSE Response(200, res)

\* Variant: the reason of the request is logged for every move
log_reason_always(from_stage, target_stage, regression_reason) == regression_reason

\* The reason of a log entry: the trimmed reason of the request for a move to a
\* lower stage, None otherwise
log_reason(from_stage, target_stage, regression_reason) ==
    IF get_stage_index(target_stage) < get_stage_index(from_stage)
    THEN regression_reason ELSE NoneStr

\* Variant: a refused request leaves an entry in the log
transition_stage_noted(r) ==
    LET response == transition_response(r)
        log == TransitionLog(current_stage, r.target_stage,
                   log_reason(current_stage, r.target_stage, strip(r.reason)), now)
    IN
    /\ logs' = insert_log(logs, log)
    /\ current_stage' = IF response.status = 200 THEN r.target_stage ELSE current_stage
    /\ last' = [op |-> "transition_stage", response |-> response]
    /\ UNCHANGED <<submissions, owner_id, regression_count, transition_count,
                   last_transition_at, artifacts, now, pending, workspace>>

\* POST /workitems/<id>/transition
transition_stage(r) ==
    LET response == transition_response(r)
        log == TransitionLog(current_stage, r.target_stage,
                   log_reason(current_stage, r.target_stage, strip(r.reason)), now)
    IN
    IF response.status # 200
    THEN UNCHANGED vars
    ELSE /\ logs' = insert_log(logs, log)
         /\ current_stage' = r.target_stage
         /\ last' = [op |-> "transition_stage", response |-> response]
         /\ UNCHANGED <<submissions, owner_id, regression_count, transition_count,
                        last_transition_at, artifacts, now, pending, workspace>>

\* add_artifact up to its return or its commit: the response in the current state
artifact_response(artifact_type, reference) ==
    LET res == can_add_artifact(work_item, logs, artifacts, current_stage,
                                artifact_type, reference)
    IN
    IF ~truthy_name(artifact_type)
    THEN Response(400, <<"artifact_type is required">>)
    ELSE IF ~res[1]
    THEN Response(400, res[2])
    ELSE Response(201, res[2])

\* POST /workitems/<id>/artifact
add_artifact(artifact_type, reference) ==
    LET response == artifact_response(artifact_type, reference)
    IN
    IF response.status # 201
    THEN UNCHANGED vars
    ELSE /\ artifacts' = artifacts (+) SetToBag({Artifact(current_stage, artifact_type)})
         /\ last' = [op |-> "add_artifact", response |-> response]
         /\ UNCHANGED <<submissions, owner_id, current_stage, regression_count, transition_count,
                        last_transition_at, logs, now, pending, workspace>>

\* The artifacts trigger_pipeline supplies, each only if none of its type is recorded
PipelineTypes == {"Unit Test Coverage Report", "Source Code Reference", "API Specification"}

\* POST /workitems/<id>/pipeline/trigger
trigger_pipeline ==
    IF current_stage # "Implementation"
    THEN UNCHANGED vars
    ELSE /\ artifacts' = artifacts (+) SetToBag(
                {Artifact("Implementation", t) : t \in
                    {u \in PipelineTypes :
                        CopiesIn(Artifact("Implementation", u), artifacts) = 0}})
         /\ logs' = insert_log(logs, TransitionLog("Implementation", "Testing", NoneStr, now))
         /\ current_stage' = "Testing"
         /\ last' = [op |-> "trigger_pipeline", response |-> Response(200, <<>>)]
         /\ UNCHANGED <<submissions, owner_id, regression_count, transition_count,
                        last_transition_at, now, pending, workspace>>

\* Spec: every kind of request, on histories of at most MaxLog transitions
Next ==
    \/ /\ Len(logs) < MaxLog
       /\ \E r \in Requests : transition_stage(r)
    \/ \E artifact_type \in TypeInputs(current_stage, artifacts),
          reference \in ReferenceInputs :
            add_artifact(artifact_type, reference)
    \/ Len(logs) < MaxLog /\ trigger_pipeline

Spec == Init /\ [][Next]_vars

\* SpecDeep: histories of any length
NextDeep ==
    \/ \E r \in DeepRequests : transition_stage(r)
    \/ \E artifact_type \in required_set(current_stage), reference \in DeepReferences :
            add_artifact(artifact_type, reference)
    \/ trigger_pipeline

SpecDeep == Init /\ [][NextDeep]_vars

\* SpecManual: transition requests and artifact submissions only, on histories of
\* any length
NextManual ==
    \/ \E r \in DeepRequests : transition_stage(r)
    \/ \E artifact_type \in required_set(current_stage), reference \in DeepReferences :
            add_artifact(artifact_type, reference)

SpecManual == Init /\ [][NextManual]_vars

-----------------------------------------------------------------------------
(* Requests served at the same time.  The server handles each request in a    *)
(* thread of its own with a session of its own: a transition request reads    *)
(* the work item and is validated (lines 506-523), and its log entry and its  *)
(* stage change are committed later (lines 537-548), with the from_stage it   *)
(* read; other requests may be validated and committed in between.            *)

\* The number of commits that may write a from_stage the item has left already
MaxStale == 2

\* The log entries whose from_stage is not the stage the entry before them led to
stale_commits(L) == Cardinality({i \in 2..Len(L) : L[i].from_stage # L[i-1].to_stage})

\* transition_stage up to its verdict: an allowed request waits for its commit
begin_transition(r) ==
    LET response == transition_response(r)
        log == TransitionLog(current_stage, r.target_stage,
                   log_reason(current_stage, r.target_stage, strip(r.reason)), now)
    IN
    IF response.status # 200
    THEN UNCHANGED vars
    ELSE /\ \A p \in BagToSet(pending) :
                /\ p.response.body.meta.total_transitions = Len(logs)
                /\ BagCardinality(pending) + stale_commits(logs) <= MaxStale
         /\ pending' = pending (+) SetToBag({[log |-> log, response |-> response]})
         /\ UNCHANGED <<submissions, owner_id, current_stage, regression_count, transition_count,
                        last_transition_at, logs, artifacts, now, last, workspace>>

\* Variant: a request is dropped if the log has grown since it was evaluated
commit_transition_fresh(p) ==
    /\ BagIn(p, pending)
    /\ pending' = pending (-) SetToBag({p})
    /\ IF p.response.body.meta.total_transitions = Len(logs)
       THEN /\ logs' = insert_log(logs, p.log)
            /\ current_stage' = p.log.to_stage
            /\ last' = [op |-> "transition_stage", response |-> p.response]
       ELSE UNCHANGED <<logs, current_stage, last>>
    /\ UNCHANGED <<submissions, owner_id, regression_count, transition_count,
                   last_transition_at, artifacts, now, workspace>>

\* transition_stage from its verdict on: the log entry and the stage are written
commit_transition(p) ==
    /\ BagIn(p, pending)
    /\ pending' = pending (-) SetToBag({p})
    /\ logs' = insert_log(logs, p.log)
    /\ current_stage' = p.log.to_stage
    /\ last' = [op |-> "transition_stage", response |-> p.response]
    /\ UNCHANGED <<submissions, owner_id, regression_count, transition_count,
                   last_transition_at, artifacts, now, workspace>>

\* The required types of a stage not recorded yet, first in the stage's order
first_missing(stage) ==
    LET missing == check_artifacts_complete(work_item, artifacts, stage)[2]
    IN IF missing = <<>> THEN {} ELSE {missing[1]}

\* The owner's well-formed requests as Manager: for the next stage, from the
\* last stage for the first one, and from the last stage with one regression
\* left also for the stage before it
RaceRequests ==
    {Request("u1", "Manager", t, ValidReason) :
        t \in {u \in StageSet : get_stage_index(u) = get_stage_index(current_stage) + 1}
               \cup (IF current_stage = STAGES[Len(STAGES)] THEN {STAGES[1]} ELSE {})
               \cup (IF current_stage = STAGES[Len(STAGES)]
                        /\ count_regressions(logs) = MAX_ALLOWED_REGRESSIONS - 1
                     THEN {STAGES[Len(STAGES) - 1]} ELSE {})}

\* SpecRace: the owner's requests arrive alone or in a burst, each request of a
\* burst validated before any of them commits and no more than MaxStale stale
\* commits resulting in all; the required artifacts are submitted in the
\* stage's order
NextRace ==
    \/ \E r \in RaceRequests : begin_transition(r)
    \/ \E p \in BagToSet(pending) : commit_transition(p)
    \/ \E artifact_type \in first_missing(current_stage), reference \in DeepReferences :
            add_artifact(artifact_type, reference)

SpecRace == Init /\ [][NextRace]_vars

-----------------------------------------------------------------------------
(* Artifact submissions served at the same time.  add_artifact reads the work  *)
(* item and runs can_add_artifact (lines 119-133), and inserts the Artifact    *)
(* row later (lines 142-150), with the stage it read; the table has an index   *)
(* on (stage, artifact_type) and no unique constraint.                         *)

\* The most submissions evaluated and not yet committed, counted together with
\* the artifacts already recorded beside another of their stage and type
MaxFlight == 2

\* The artifacts recorded beside another of their stage and type
duplicates(A) == BagCardinality(A) - Cardinality(BagToSet(A))

\* add_artifact up to its verdict: an allowed submission waits for its insert
begin_artifact(artifact_type, reference) ==
    LET response == artifact_response(artifact_type, reference)
    IN
    IF response.status # 201
    THEN UNCHANGED vars
    ELSE /\ BagCardinality(submissions) + duplicates(artifacts) < MaxFlight
         /\ submissions' = submissions (+) SetToBag(
                {[artifact |-> Artifact(current_stage, artifact_type), response |-> response]})
         /\ UNCHANGED <<owner_id, current_stage, regression_count, transition_count,
                        last_transition_at, logs, artifacts, now, pending, last, workspace>>

\* Variant: the insert is skipped if the type is recorded at the stage by then
commit_artifact_checked(p) ==
    /\ BagIn(p, submissions)
    /\ submissions' = submissions (-) SetToBag({p})
    /\ IF has_duplicate_artifact(artifacts, p.artifact.stage, p.artifact.artifact_type)
       THEN UNCHANGED <<artifacts, last>>
       ELSE /\ artifacts' = artifacts (+) SetToBag({p.artifact})
            /\ last' = [op |-> "add_artifact", response |-> p.response]
    /\ UNCHANGED <<owner_id, current_stage, regression_count, transition_count,
                   last_transition_at, logs, now, pending, workspace>>

\* add_artifact from its verdict on: the Artifact row is inserted
commit_artifact(p) ==
    /\ BagIn(p, submissions)
    /\ submissions' = submissions (-) SetToBag({p})
    /\ artifacts' = artifacts (+) SetToBag({p.artifact})
    /\ last' = [op |-> "add_artifact", response |-> p.response]
    /\ UNCHANGED <<owner_id, current_stage, regression_count, transition_count,
                   last_transition_at, logs, now, pending, workspace>>

\* The owner's well-formed requests as Manager for the next stage and, until
\* the item has gone back once, for the first one
SubmitRequests ==
    {Request("u1", "Manager", t, ValidReason) :
        t \in {u \in StageSet : get_stage_index(u) = get_stage_index(current_stage) + 1}
               \cup (IF count_regressions(logs) = 0 THEN {STAGES[1]} ELSE {})}

\* SpecSubmit: the required artifacts are submitted in the stage's order, alone
\* or several at a time, each evaluated before it is inserted, between the
\* owner's transitions
NextSubmit ==
    \/ \E artifact_type \in first_missing(current_stage), reference \in DeepReferences :
            begin_artifact(artifact_type, reference)
    \/ \E p \in BagToSet(submissions) : commit_artifact(p)
    \/ \E r \in SubmitRequests : transition_stage(r)

SpecSubmit == Init /\ [][NextSubmit]_vars

-----------------------------------------------------------------------------
(* Time.  datetime.utcnow() is read when a log entry is created and when the   *)
(* time in the current stage is measured; the clock counts half days since     *)
(* the item was created.                                                       *)

\* The last half day of the clock
MaxNow == 17

\* The longest history of the specification SpecTime
MaxTimeLog == 3

\* The time that passes between two requests: a day and a half, or a week
DaysInputs == {TicksPerDay + 1, STAGE_TIMEOUT_DAYS["Requirement"] * TicksPerDay}

\* d half days pass
tick(d) ==
    /\ now + d <= MaxNow
    /\ now' = now + d
    /\ UNCHANGED <<submissions, owner_id, current_stage, regression_count, transition_count,
                   last_transition_at, logs, artifacts, pending, last, workspace>>

\* The owner's requests as Manager for the next stage and for the first one,
\* with a justification that holds no weak keyword and with one that holds "ok"
TimeRequests ==
    {Request("u1", "Manager", t, reason) :
        t \in {u \in StageSet : get_stage_index(u) = get_stage_index(current_stage) + 1}
               \cup {STAGES[1]},
        reason \in {ValidReason, padded(weak_text(MIN_REGRESSION_REASON_LENGTH))}}

\* SpecTime: days pass between the owner's requests, on histories of at most
\* MaxTimeLog transitions; the required artifacts are submitted in the stage's
\* order
NextTime ==
    \/ \E d \in DaysInputs : tick(d)
    \/ /\ Len(logs) < MaxTimeLog
       /\ \E r \in TimeRequests : transition_stage(r)
    \/ \E artifact_type \in first_missing(current_stage), reference \in DeepReferences :
            add_artifact(artifact_type, reference)

SpecTime == Init /\ [][NextTime]_vars

-----------------------------------------------------------------------------
(* The code workspace: CodeFile rows keyed by branch and filename, written by  *)
(* push_code, merge_code and delete_code_file.  Branch names and filenames are *)
(* only compared, lowered and stripped, and are TLA+ strings.                  *)

\* User rows: the accounts registered with ui_register, which takes any unused
\* username and any role
Accounts ==
    { [id |-> "u1", username |-> "alice", role |-> "Manager"],
      [id |-> "u2", username |-> "bob", role |-> "Developer"],
      [id |-> "u3", username |-> "root", role |-> "Admin"],
      [id |-> "u4", username |-> "Unassigned", role |-> "Tester"] }

\* The session of a logged-in user: ui_login and ui_register store the user id
\* and the username, and no role
Session(account) == [user_id |-> account.id, username |-> account.username, role |-> None]

Sessions == {Session(account) : account \in Accounts}

\* User.query.get(user_id), for the id of a registered user
User_query_get(user_id) == CHOOSE account \in Accounts : account.id = user_id

\* session.get('role') or (current_user.role if current_user else "Developer")
session_role(session) ==
    IF truthy_name(session.role) THEN session.role
    ELSE IF \E account \in Accounts : account.id = session.user_id
    THEN User_query_get(session.user_id).role
    ELSE "Developer"

\* str.lower() on the branch names the model uses
lower_name(name) == IF name \in {"Main", "MAIN"} THEN "main" ELSE name

\* str.strip() on the branch names the model uses
strip_name(name) ==
    CASE name = " dev " -> "dev"
      [] name = " main" -> "main"
      [] name = " "     -> ""
      [] OTHER          -> name

\* x or default, for an optional name
or_name(x, default) == IF truthy_name(x) THEN x ELSE default

\* The values of data["assignee"] at creation: absent (the default) or a username
AssigneeInputs == {"Unassigned", "bob"}

FilenameInputs == {None, "a.py", "b.py"}

ContentInputs == {"v1", "v2"}

\* The values of data["branch"] the files are pushed with, and all of them
BranchInputs == {None, "main", "dev"}

AllBranchInputs == BranchInputs \cup {"", "Main", "MAIN"}

\* The values of data["source_branch"] and data["target_branch"]
SourceInputs == {None, " ", " dev ", "main", "Main"}

TargetInputs == {None, "dev", "Main", " main"}

CodeFile(branch, filename, content) ==
    [branch |-> branch, filename |-> filename, content |-> content]

\* CodeFile.query.filter_by(work_item_id=id, branch=branch)
files_of(F, branch) == {f \in F : f.branch = branch}

\* The row of (branch, filename) gets the content, or a row is added
upsert(F, branch, filename, content) ==
    {f \in F : ~(f.branch = branch /\ f.filename = filename)}
        \cup {CodeFile(branch, filename, content)}

\* is_owner or is_admin or is_assignee
may_write_main(session) ==
    LET is_owner == owner_id # None /\ session.user_id = owner_id
        is_admin == session_role(session) = "Admin"
        is_assignee == assignee = session.username
    IN is_owner \/ is_admin \/ is_assignee

\* push_code up to its return or its commit
push_response(session, filename, branch_input) ==
    LET branch == or_name(branch_input, "main")
    IN IF lower_name(branch) = "main" /\ ~may_write_main(session)
       THEN Response(403, <<"Only the owner or an Admin can push to main">>)
       ELSE IF ~truthy_name(filename)
       THEN Response(400, <<"filename is required">>)
       ELSE Response(201, <<"Code pushed successfully">>)

\* POST /workitems/<id>/code
push_code(session, filename, content, branch_input) ==
    LET response == push_response(session, filename, branch_input)
    IN IF response.status # 201
       THEN UNCHANGED vars
       ELSE /\ code_files' = upsert(code_files, or_name(branch_input, "main"), filename, content)
            /\ last' = [op |-> "push_code", response |-> response, session |-> session]
            /\ UNCHANGED <<submissions, owner_id, current_stage, regression_count, transition_count,
                           last_transition_at, logs, artifacts, now, pending, assignee,
                           workspace_branches>>

\* merge_code up to its return or its commit.  A merge whose target is main goes
\* on to read WorkspaceBranch, a name routes.py does not import: the NameError
\* ends the request before the commit.
merge_response(session, source_input, target_input) ==
    LET source_branch == strip_name(or_name(source_input, ""))
        target_branch == strip_name(or_name(target_input, "main"))
    IN IF ~truthy_name(source_branch)
       THEN Response(400, <<"source_branch is required">>)
       ELSE IF lower_name(source_branch) = lower_name(target_branch)
       THEN Response(400, <<"Source and target branches must be different">>)
       ELSE IF ~may_write_main(session)
       THEN Response(403, <<"Only the workspace owner or an Admin can merge code">>)
       ELSE IF files_of(code_files, source_branch) = {}
       THEN Response(404, <<"No files found in source branch">>)
       ELSE IF lower_name(target_branch) = "main"
       THEN Response(500, <<"NameError">>)
       ELSE Response(200, <<"Successfully merged">>)

\* The rows after every file of the source branch is copied to the target branch
RECURSIVE merged(_, _, _)
merged(F, source_files, target_branch) ==
    IF source_files = {} THEN F
    ELSE LET s_file == CHOOSE f \in source_files : TRUE
         IN merged(upsert(F, target_branch, s_file.filename, s_file.content),
                   source_files \ {s_file}, target_branch)

\* POST /workitems/<id>/merge
merge_code(session, source_input, target_input) ==
    LET response == merge_response(session, source_input, target_input)
        source_branch == strip_name(or_name(source_input, ""))
        target_branch == strip_name(or_name(target_input, "main"))
    IN IF response.status # 200
       THEN UNCHANGED vars
       ELSE /\ code_files' = merged(code_files, files_of(code_files, source_branch),
                                    target_branch)
            /\ last' = [op |-> "merge_code", response |-> response, session |-> session]
            /\ UNCHANGED <<submissions, owner_id, current_stage, regression_count, transition_count,
                           last_transition_at, logs, artifacts, now, pending, assignee,
                           workspace_branches>>

\* delete_code_file up to its return or its commit.  For a branch other than
\* main the handler reads WorkspaceBranch and ends with the NameError.
delete_response(session, filename, branch_input) ==
    LET branch_name == or_name(branch_input, "main")
        is_owner == owner_id # None /\ session.user_id = owner_id
        is_admin == session_role(session) = "Admin"
    IN IF ~truthy_name(filename)
       THEN Response(400, <<"filename is required">>)
       ELSE IF lower_name(branch_name) = "main" /\ ~(is_owner \/ is_admin)
       THEN Response(403, <<"Only the workspace owner or an Admin can delete files in the main branch">>)
       ELSE IF lower_name(branch_name) # "main"
       THEN Response(500, <<"NameError">>)
       ELSE IF \A f \in files_of(code_files, branch_name) : f.filename # filename
       THEN Response(404, <<"File not found">>)
       ELSE Response(200, <<"File deleted successfully">>)

\* POST /workitems/<id>/code/delete
delete_code_file(session, filename, branch_input) ==
    LET response == delete_response(session, filename, branch_input)
        branch_name == or_name(branch_input, "main")
    IN IF response.status # 200
       THEN UNCHANGED vars
       ELSE /\ code_files' = {f \in code_files :
                                  ~(f.branch = branch_name /\ f.filename = filename)}
            /\ last' = [op |-> "delete_code_file", response |-> response,
                        session |-> session]
            /\ UNCHANGED <<submissions, owner_id, current_stage, regression_count, transition_count,
                           last_transition_at, logs, artifacts, now, pending, assignee,
                           workspace_branches>>

\* The names routes.py binds at module level: its imports from flask, functools,
\* models and validators, and register_routes
routes_globals ==
    {"request", "jsonify", "render_template", "session", "redirect", "url_for", "wraps",
     "db", "WorkItem", "Artifact", "TransitionLog", "Comment", "CodeFile", "User", "Project",
     "validate_transition", "can_add_artifact", "check_artifacts_complete", "STAGES",
     "REQUIRED_ARTIFACTS", "get_stage_index", "register_routes"}

\* Evaluating a global name of routes.py succeeds; otherwise it raises NameError
bound(name) == name \in routes_globals

\* WorkspaceBranch(work_item_id, name, created_by_id), is_merged defaulted
WorkspaceBranch(name, created_by_id) ==
    [name |-> name, created_by_id |-> created_by_id, is_merged |-> FALSE]

\* The values of data["name"] and data["from_branch"] of a branch creation, and
\* of data["name"] of a branch deletion
NameInputs == {None, "main", "Main", " main", "dev", " dev "}

FromInputs == {None, "dev"}

DeleteInputs == {None, "", "main", "Main", "MAIN", "dev"}

\* GET /workitems/<id>/branches: the response in the current state
branches_response ==
    LET file_branches == {f.branch : f \in code_files}
    IN IF ~bound("WorkspaceBranch")
       THEN Response(500, <<"NameError">>)
       ELSE LET meta_branches == {b.name : b \in workspace_branches}
                existing == file_branches \cup meta_branches
            IN Response(200, [branches |-> IF existing = {} THEN {"main"}
                                           ELSE existing \cup {"main"}])

\* GET /workitems/<id>/branches writes nothing
list_branches ==
    /\ branches_response.status \in {200, 500}
    /\ UNCHANGED vars

\* manage_branches with POST up to its return or its commit
create_branch_response(name_input, from_input) ==
    LET name == strip_name(or_name(name_input, ""))
        from_branch == strip_name(or_name(from_input, "main"))
    IN IF ~truthy_name(name)
       THEN Response(400, <<"name is required">>)
       ELSE IF name = from_branch
       THEN Response(400, <<"Branch name must differ from source branch">>)
       ELSE IF lower_name(name) = "main"
       THEN Response(400, <<"Cannot create a branch named 'main'">>)
       ELSE IF ~bound("WorkspaceBranch")
       THEN Response(500, <<"NameError">>)
       ELSE IF \/ \E b \in workspace_branches : b.name = name
               \/ files_of(code_files, name) # {}
       THEN Response(400, <<"Branch already exists">>)
       ELSE Response(201, <<"Branch created">>)

\* POST /workitems/<id>/branches
create_branch(session, name_input, from_input) ==
    LET response == create_branch_response(name_input, from_input)
        name == strip_name(or_name(name_input, ""))
    IN IF response.status # 201
       THEN UNCHANGED vars
       ELSE /\ workspace_branches' =
                   workspace_branches \cup {WorkspaceBranch(name, session.user_id)}
            /\ last' = [op |-> "create_branch", response |-> response, session |-> session]
            /\ UNCHANGED <<submissions, owner_id, current_stage, regression_count, transition_count,
                           last_transition_at, logs, artifacts, now, pending, assignee,
                           code_files>>

\* delete_branch up to its return or its commit
delete_branch_response(session, branch_name) ==
    LET is_owner == owner_id # None /\ session.user_id = owner_id
        is_admin == session_role(session) = "Admin"
        branch_meta == {b \in workspace_branches : b.name = branch_name}
        is_branch_creator == \E b \in branch_meta : b.created_by_id = session.user_id
    IN IF ~truthy_name(branch_name)
       THEN Response(400, <<"branch name is required">>)
       ELSE IF lower_name(branch_name) = "main"
       THEN Response(400, <<"The main branch cannot be deleted">>)
       ELSE IF ~bound("WorkspaceBranch")
       THEN Response(500, <<"NameError">>)
       ELSE IF ~(is_owner \/ is_admin) /\ ~is_branch_creator
       THEN Response(403, <<"Only the workspace owner or the branch creator can delete this branch">>)
       ELSE IF ~(is_owner \/ is_admin) /\ \E b \in branch_meta : b.is_merged
       THEN Response(403, <<"Cannot delete a branch that has already been merged by the owner">>)
       ELSE Response(200, <<"Branch and its files deleted successfully">>)

\* POST /workitems/<id>/branches/delete
delete_branch(session, branch_name) ==
    LET response == delete_branch_response(session, branch_name)
    IN IF response.status # 200
       THEN UNCHANGED vars
       ELSE /\ code_files' = code_files \ files_of(code_files, branch_name)
            /\ workspace_branches' = {b \in workspace_branches : b.name # branch_name}
            /\ last' = [op |-> "delete_branch", response |-> response, session |-> session]
            /\ UNCHANGED <<submissions, owner_id, current_stage, regression_count, transition_count,
                           last_transition_at, logs, artifacts, now, pending, assignee>>

\* create_workitem by the first user, with or without an assignee
InitCode ==
    /\ owner_id = "u1"
    /\ current_stage = "Requirement"
    /\ regression_count = 0
    /\ transition_count = 0
    /\ last_transition_at = <<>>
    /\ logs = <<>>
    /\ artifacts = EmptyBag
    /\ now = 0
    /\ pending = EmptyBag
    /\ submissions = EmptyBag
    /\ last = [op |-> "create_workitem", response |-> Response(201, <<>>)]
    /\ assignee \in AssigneeInputs
    /\ code_files = {}
    /\ workspace_branches = {}

\* SpecCode: the logged-in users push, merge and delete files, and list, create
\* and delete branches
NextCode ==
    \/ \E session \in Sessions, filename \in FilenameInputs, content \in ContentInputs,
          branch \in BranchInputs :
            push_code(session, filename, content, branch)
    \/ \E session \in Sessions, source \in SourceInputs, target \in TargetInputs :
            merge_code(session, source, target)
    \/ \E session \in Sessions, filename \in FilenameInputs, branch \in AllBranchInputs :
            delete_code_file(session, filename, branch)
    \/ list_branches
    \/ \E session \in Sessions, name \in NameInputs, from_branch \in FromInputs :
            create_branch(session, name, from_branch)
    \/ \E session \in Sessions, name \in DeleteInputs : delete_branch(session, name)

SpecCode == InitCode /\ [][NextCode]_vars

-----------------------------------------------------------------------------
(* Properties.  A verdict is stated for every argument validate_transition can *)
(* be called with in the state at hand, not only for the requests that drive   *)
(* the specification.                                                          *)

\* requester_id: a user, or None
Requesters == Users \cup {None}

\* The verdict on a request in the current state
verdict(target_stage, regression_reason, user_role, requester_id) ==
    validate_transition(work_item, logs, artifacts, now, target_stage,
                        regression_reason, user_role, requester_id)

\* The artifact types recorded for the item at a stage
recorded(stage) == {a.artifact_type : a \in {b \in BagToSet(artifacts) : b.stage = stage}}

\* The stage after the current one, or None at the last stage
next_stage ==
    IF get_stage_index(current_stage) + 1 < Len(STAGES)
    THEN STAGES[get_stage_index(current_stage) + 2] ELSE None

\* The requester passes the ownership gate
owner_ok(user_role, requester_id) ==
    owner_id = None \/ requester_id = None \/ requester_id = owner_id \/ user_role = "Admin"

\* C1: a move to the next stage is rejected while a type required for the current
\* stage is not recorded at that stage, is allowed for an owner with an approver
\* role once all are recorded, and recording a further artifact of a type the
\* stage does not require leaves the verdict as it is.
C1_ForwardNeedsArtifacts ==
    next_stage # None =>
        /\ \A requester_id \in Requesters, user_role \in AllRoleInputs,
              reason \in {NoneStr, text(MIN_REGRESSION_REASON_LENGTH)} :
              LET v == verdict(next_stage, reason, user_role, requester_id)
                  complete == required_set(current_stage) \subseteq recorded(current_stage)
              IN /\ ~complete => ~v.allowed
                 /\ (/\ complete
                     /\ owner_ok(user_role, requester_id)
                     /\ user_role \in REQUIRED_APPROVER_ROLES[current_stage]) => v.allowed
        /\ \A user_role \in {"Manager", "Guest"},
              t \in (RequiredTypes \cup ExtraTypes) \ required_set(current_stage) :
              validate_transition(work_item, logs,
                  artifacts (+) SetToBag({Artifact(current_stage, t)}), now,
                  next_stage, NoneStr, user_role, owner_id).allowed
              = verdict(next_stage, NoneStr, user_role, owner_id).allowed

\* C1 witness: a forward move was carried out from a stage that holds all its
\* required artifacts and one of a type it does not require.
C1_Witness ==
    /\ last.op = "transition_stage"
    /\ last.response.status = 200
    /\ logs # <<>>
    /\ LET e == logs[Len(logs)]
       IN /\ get_stage_index(e.to_stage) = get_stage_index(e.from_stage) + 1
          /\ required_set(e.from_stage) \subseteq recorded(e.from_stage)
          /\ recorded(e.from_stage) \ required_set(e.from_stage) # {}

\* C2 as stated: every change of the current stage moves the stage index by
\* exactly one, up or down.
C2_StepIsOneStage ==
    [][current_stage' # current_stage =>
          \/ get_stage_index(current_stage') = get_stage_index(current_stage) + 1
          \/ get_stage_index(current_stage') = get_stage_index(current_stage) - 1]_vars

\* C2, amended: every change of the current stage moves the stage index up by
\* exactly one or down by any distance; a move up is never more than one stage.
C2_StepIsNextOrBack ==
    [][current_stage' # current_stage =>
          \/ get_stage_index(current_stage') = get_stage_index(current_stage) + 1
          \/ get_stage_index(current_stage') < get_stage_index(current_stage)]_vars

\* C2 witness: a move back over more than one stage was carried out.
C2_Witness ==
    /\ last.op = "transition_stage"
    /\ last.response.status = 200
    /\ logs # <<>>
    /\ LET e == logs[Len(logs)]
       IN /\ get_stage_index(e.to_stage) < get_stage_index(e.from_stage) - 1
          /\ e.to_stage = current_stage

\* The stages more than one ahead of the current stage
skip_targets == {t \in StageSet : get_stage_index(t) > get_stage_index(current_stage) + 1}

\* C3: a request for a stage more than one ahead of the current stage is rejected
\* for every requester, role and reason, whatever artifacts are recorded; the
\* handler answers it with an error status and leaves every variable as it is.
C3_SkipRejected ==
    /\ [](\A t \in skip_targets, user_role \in AllRoleInputs :
             /\ \A requester_id \in Requesters, reason \in {NoneStr, ValidReason} :
                    ~verdict(t, reason, user_role, requester_id).allowed
             /\ \A user_id \in Users, reason \in {<<>>, NoneStr, <<" ">>} :
                    transition_response(Request(user_id, user_role, t, reason)).status
                        \in {400, 403, 500})
    /\ [][\A t \in skip_targets, user_id \in Users :
             transition_stage(Request(user_id, "Admin", t, <<>>))
                => UNCHANGED <<current_stage, logs, artifacts>>]_vars

\* C3 witness: the current stage holds all its required artifacts, and the owner's
\* request as Manager for the stage two ahead is answered 400, naming the next stage.
C3_Witness ==
    /\ required_set(current_stage) \subseteq recorded(current_stage)
    /\ current_stage = "Design"
    /\ LET response == transition_response(Request("u1", "Manager", "Testing", <<>>))
       IN /\ response.status = 400
          /\ response.body.message = <<"Stage skipping not allowed. Next allowed stage: ",
                                        "Implementation">>

\* The stages below the current stage
back_targets == {t \in StageSet : get_stage_index(t) < get_stage_index(current_stage)}

\* The logged transitions that went to a lower stage
backward_moves ==
    Cardinality({i \in 1..Len(logs) :
        get_stage_index(logs[i].to_stage) < get_stage_index(logs[i].from_stage)})

\* C4: a request for a lower stage, at any distance, that passes the ownership
\* gate (from the owner, from an Admin, or with no requester id) is allowed exactly
\* when the role is Manager or Admin, fewer than 3 logged transitions went
\* backward, and the reason is given and at least 30 long once trimmed: with a
\* good reason the role and the count decide, with the role Manager a missing,
\* blank or 29-long reason is refused, and the verdict is the same with no
\* artifact recorded at all.
C4_RegressionAllowedIff ==
    LET below == backward_moves < MAX_ALLOWED_REGRESSIONS IN
    \A t \in back_targets :
        /\ \A user_role \in {None, "Developer", "Manager", "Admin"} :
              verdict(t, ValidReason, user_role, owner_id).allowed
              <=> (user_role \in {"Manager", "Admin"} /\ below)
        /\ \A reason \in {NoneStr, <<" ">>, padded(text(MIN_REGRESSION_REASON_LENGTH - 1))} :
              ~verdict(t, reason, "Manager", owner_id).allowed
        /\ ~verdict(t, NoneStr, "Developer", owner_id).allowed
        /\ \A requester_id \in Requesters \ {owner_id} :
              verdict(t, ValidReason, "Admin", requester_id).allowed
              <=> below
        /\ validate_transition(work_item, logs, EmptyBag, now, t, ValidReason,
                               "Manager", owner_id).allowed
           <=> below

\* C4 witness: a move back over two stages was carried out from a stage that
\* lacked a required artifact, as the third backward move of the item.
C4_Witness ==
    /\ last.op = "transition_stage"
    /\ last.response.status = 200
    /\ backward_moves = MAX_ALLOWED_REGRESSIONS
    /\ LET e == logs[Len(logs)]
       IN /\ get_stage_index(e.to_stage) = get_stage_index(e.from_stage) - 2
          /\ ~(required_set(e.from_stage) \subseteq recorded(e.from_stage))

\* The answer to the owner's well-formed request, in a given role, for stage t
owner_response(user_role, t) == transition_response(Request(owner_id, user_role, t, ValidReason))

\* C5: once 3 logged transitions went backward, every request for a lower stage
\* is refused with the ceiling message, also from the owner as Manager or Admin
\* with a reason of 30 characters, and the handler answers 400.
C5_FourthRegressionRejected ==
    backward_moves >= MAX_ALLOWED_REGRESSIONS =>
        \A t \in back_targets, user_role \in {"Manager", "Admin"} :
            /\ count_regressions(logs) >= MAX_ALLOWED_REGRESSIONS
            /\ ~verdict(t, text(MIN_REGRESSION_REASON_LENGTH), user_role, owner_id).allowed
            /\ LET response == owner_response(user_role, t)
               IN /\ response.status = 400
                  /\ response.body.message = <<"Maximum regressions reached.">>

\* C5 witness: the third backward move has just been carried out, to a stage
\* that can be advanced from and gone back from, and the owner's request as
\* Manager to go back once more is answered 400.
C5_Witness ==
    /\ last.op = "transition_stage"
    /\ backward_moves = MAX_ALLOWED_REGRESSIONS
    /\ logs # <<>>
    /\ get_stage_index(logs[Len(logs)].to_stage) < get_stage_index(logs[Len(logs)].from_stage)
    /\ current_stage = "Design"
    /\ owner_response("Manager", "Requirement").status = 400

\* C7: with the operations run one at a time, the item never has more than 20
\* logged transitions nor more than 3 regressions, counted as the validator
\* counts them and as backward entries of the log.
C7_Ceilings ==
    /\ count_total_transitions(logs) <= MAX_ALLOWED_TRANSITIONS
    /\ count_regressions(logs) <= MAX_ALLOWED_REGRESSIONS
    /\ backward_moves <= MAX_ALLOWED_REGRESSIONS

\* C7 witness: the item has used its 3 regressions and sits in the last stage
\* after a forward move, with no further move left.
C7_Witness ==
    /\ backward_moves = MAX_ALLOWED_REGRESSIONS
    /\ current_stage = "Release"
    /\ last.op = "transition_stage"
    /\ Len(logs) >= 2 * MAX_ALLOWED_REGRESSIONS + (Len(STAGES) - 1)

\* The message of the quota gate
quota_message == <<"Work item has reached maximum transitions">>

\* C6: once 20 transitions are logged, a request of the owner for any other
\* stage, forward or backward, is refused with the quota message for every
\* role, none included, with or without a reason, and whatever artifacts are
\* recorded, none included; the handler answers 400.
C6_QuotaRejects ==
    count_total_transitions(logs) >= MAX_ALLOWED_TRANSITIONS =>
        \A t \in StageSet \ {current_stage}, user_role \in AllRoleInputs :
            /\ \A reason \in {NoneStr, ValidReason} :
                  LET v == verdict(t, reason, user_role, owner_id)
                  IN ~v.allowed /\ v.message = quota_message
            /\ validate_transition(work_item, logs, EmptyBag, now, t, ValidReason,
                                   user_role, owner_id).message = quota_message
            /\ LET response == transition_response(Request(owner_id, user_role, t, ValidReason))
               IN response.status = 400 /\ response.body.message = quota_message

\* C6 witness: 20 transitions are logged, none is in flight, the item is in
\* Testing with every required artifact recorded, and the owner's request as
\* Manager for Release is answered 400.
C6_Witness ==
    /\ Len(logs) = MAX_ALLOWED_TRANSITIONS
    /\ pending = EmptyBag
    /\ current_stage = "Testing"
    /\ required_set("Testing") \subseteq recorded("Testing")
    /\ transition_response(Request(owner_id, "Manager", "Release", ValidReason)).status = 400

\* C8: the item has an owner; a transition request of another user in a role
\* other than Admin, none included, is refused with the FORBIDDEN message and an
\* empty meta for every target given, stage or not, with or without a reason,
\* whatever artifacts are recorded; the handler answers 403 and leaves the stage,
\* the log and the artifacts as they are.
C8_NonOwnerForbidden ==
    /\ [](owner_id # None =>
            \A requester_id \in Users \ {owner_id}, user_role \in AllRoleInputs \ {"Admin"},
               t \in AllTargetInputs \ {None, ""} :
               /\ \A reason \in {NoneStr, ValidReason} :
                     LET v == verdict(t, reason, user_role, requester_id)
                     IN ~v.allowed /\ v.message[1] = "FORBIDDEN" /\ v.meta = <<>>
               /\ \A reason \in {<<>>, text(MIN_REGRESSION_REASON_LENGTH)} :
                     transition_response(Request(requester_id, user_role, t, reason)).status
                        = 403)
    /\ [][\A user_role \in AllRoleInputs \ {"Admin"}, t \in StageSet :
             transition_stage(Request("u2", user_role, t, text(MIN_REGRESSION_REASON_LENGTH)))
                => UNCHANGED <<current_stage, logs, artifacts>>]_vars

\* C8 witness: every required artifact of Design is recorded, the owner's request
\* as Manager for Implementation would be carried out, and the same request of
\* the other user is answered 403.
C8_Witness ==
    /\ owner_id = "u1"
    /\ current_stage = "Design"
    /\ required_set("Design") \subseteq recorded("Design")
    /\ transition_response(Request("u1", "Manager", "Implementation", <<>>)).status = 200
    /\ transition_response(Request("u2", "Manager", "Implementation", <<>>)).status = 403

\* C9: a move to the next stage is allowed only in a role among the approver
\* roles of the current stage, the one being left, and never without a role:
\* with every required artifact recorded the owner is refused exactly in the
\* other roles, and with no role the refusal says that a role is required.
C9_ApproverOfStageLeft ==
    next_stage # None =>
        LET complete == required_set(current_stage) \subseteq recorded(current_stage) IN
        \A user_role \in AllRoleInputs :
            /\ \A requester_id \in Requesters :
                  verdict(next_stage, NoneStr, user_role, requester_id).allowed
                     => user_role \in REQUIRED_APPROVER_ROLES[current_stage]
            /\ complete =>
                  LET v == verdict(next_stage, NoneStr, user_role, owner_id)
                  IN /\ v.allowed <=> user_role \in REQUIRED_APPROVER_ROLES[current_stage]
                     /\ user_role \in {None, ""} =>
                           v.message = <<"User role is required to transition stages in Enterprise mode.">>
                     /\ (user_role \notin {None, ""} /\ ~v.allowed) =>
                           v.message = <<"Unauthorized: Only ", current_stage>>

\* C9 witness: a move from Design to Implementation was carried out, after which
\* Implementation holds every required artifact; the owner's request for Testing
\* is answered 200 as Developer and 400 as Architect, an approver of Design, and
\* as Tester, an approver of Testing.
C9_Witness ==
    /\ current_stage = "Implementation"
    /\ logs # <<>>
    /\ logs[Len(logs)].from_stage = "Design"
    /\ required_set("Implementation") \subseteq recorded("Implementation")
    /\ transition_response(Request("u1", "Developer", "Testing", <<>>)).status = 200
    /\ transition_response(Request("u1", "Architect", "Testing", <<>>)).status = 400
    /\ transition_response(Request("u1", "Tester", "Testing", <<>>)).status = 400

\* Reasons of exactly n characters once trimmed: bare, padded with whitespace,
\* and with whitespace inside
trimmed_to(n) == {text(n), padded(text(n)), text(n - 2) \o <<" ", "x">>, padded(weak_text(n))}

\* C10: for a request for a lower stage in the role Manager or Admin while fewer
\* than 3 regressions are counted, a reason 29 long once trimmed is refused as too
\* short, a reason 30 long once trimmed is accepted, and a missing, empty or
\* blank reason is refused as missing; the handler answers 400, 200 and 400.
C10_ReasonBoundary ==
    count_regressions(logs) < MAX_ALLOWED_REGRESSIONS =>
        \A t \in back_targets, user_role \in {"Manager", "Admin"} :
            /\ \A reason \in trimmed_to(MIN_REGRESSION_REASON_LENGTH - 1) :
                  /\ verdict(t, reason, user_role, owner_id).message
                        = <<"Reason must be at least 30 characters.">>
                  /\ transition_response(Request(owner_id, user_role, t, reason)).status = 400
            /\ \A reason \in trimmed_to(MIN_REGRESSION_REASON_LENGTH) :
                  /\ verdict(t, reason, user_role, owner_id).allowed
                  /\ transition_response(Request(owner_id, user_role, t, reason)).status = 200
            /\ \A reason \in {NoneStr, <<>>, <<" ">>, <<" ", "\n", " ">>} :
                  verdict(t, reason, user_role, owner_id).message
                     = <<"Regression justification is required.">>
            /\ \A reason \in {<<>>, <<" ">>, <<" ", "\n", " ">>} :
                  transition_response(Request(owner_id, user_role, t, reason)).status = 400

\* C10 witness: a move back was carried out on a padded reason and its log
\* entry holds the 30 characters left after trimming; the owner's request to go
\* back again with 29 characters and the same padding is answered 400.
C10_Witness ==
    /\ last.op = "transition_stage"
    /\ last.response.status = 200
    /\ logs # <<>>
    /\ logs[Len(logs)].to_stage = "Design"
    /\ get_stage_index(logs[Len(logs)].from_stage) > get_stage_index("Design")
    /\ logs[Len(logs)].reason = text(MIN_REGRESSION_REASON_LENGTH)
    /\ transition_response(Request(owner_id, "Manager", "Requirement",
           padded(text(MIN_REGRESSION_REASON_LENGTH - 1)))).status = 400

\* C11: with the operations run one at a time, no stage holds two artifacts of
\* one type: for every artifact recorded, can_add_artifact refuses another of
\* its type at its stage for every reference, with the already-exists message
\* when the stage is the current one and has not been exited, and the handler
\* answers 400.
C11_OneArtifactPerType ==
    \A a \in BagToSet(artifacts) :
        /\ CopiesIn(a, artifacts) = 1
        /\ \A reference \in AllReferenceInputs :
              LET res == can_add_artifact(work_item, logs, artifacts, a.stage,
                                          a.artifact_type, reference)
              IN /\ ~res[1]
                 /\ (a.stage = current_stage /\ ~was_stage_exited(logs, a.stage)) =>
                       /\ res[2] = <<"Artifact already exists in stage">>
                       /\ artifact_response(a.artifact_type, reference).status = 400

\* C11 witness: Implementation is the current stage and has never been exited,
\* a Source Code Reference is recorded at it, and the submission of another one
\* with a well-formed commit is answered 400.
C11_Witness ==
    /\ current_stage = "Implementation"
    /\ ~was_stage_exited(logs, "Implementation")
    /\ last.op = "add_artifact"
    /\ CopiesIn(Artifact("Implementation", "Source Code Reference"), artifacts) = 1
    /\ artifact_response("Source Code Reference", <<"f","b","8","8","1","d","3">>).status = 400

\* C12 as stated: once a log entry has from_stage S, no step adds an artifact
\* to stage S, also when S is the current stage again.
C12_ExitedStageFrozen ==
    [][\A a \in BagToSet(artifacts') :
          was_stage_exited(logs, a.stage) =>
              CopiesIn(a, artifacts') = CopiesIn(a, artifacts)]_vars

\* C13 as stated: the stored regression_count equals the regressions counted
\* from the log and the stored transition_count equals the number of logged
\* transitions.
C13_CountersMatchLog ==
    /\ regression_count = count_regressions(logs)
    /\ transition_count = count_total_transitions(logs)

\* The keys the metadata of an evaluation holds at least
count_keys == {"regression_count", "total_transitions"}

\* C15 as stated: every evaluation of validate_transition, whichever gate
\* decides it, returns metadata that holds the regression count and the total
\* transition count of the item.
C15_MetaAlwaysHasCounts ==
    \A t \in AllTargetInputs \ {None, ""}, user_role \in {None, "Developer", "Manager"},
       requester_id \in Requesters :
        LET v == verdict(t, NoneStr, user_role, requester_id)
        IN /\ count_keys \subseteq DOMAIN v.meta
           /\ v.meta.regression_count = count_regressions(logs)
           /\ v.meta.total_transitions = count_total_transitions(logs)

\* The messages of the two role rejections of a move from the current stage
role_rejections ==
    { <<"Unauthorized: Only ", current_stage>>,
      <<"Unauthorized: Only Managers or Admins can approve a regression.">> }

\* C19 as stated: a request of the owner refused because the role is not an
\* approver role of the stage being left, or is not Manager or Admin for a move
\* back, is answered 403 as the request of another user is.
C19_RoleRejectionIs403 ==
    \A t \in StageSet, user_role \in Roles \cup {"Guest"} :
        LET response == transition_response(Request(owner_id, user_role, t, ValidReason))
        IN (response.status # 200 /\ response.body.message \in role_rejections)
              => response.status = 403

\* C20 as stated: the item starts in Requirement with zero counters and an empty
\* log, and every step that changes current_stage is a move that
\* validate_transition allows, in the state before the step, for some requester,
\* role and reason.
C20_StageChangesOnlyByVerdict ==
    /\ (current_stage = "Requirement" /\ regression_count = 0 /\ transition_count = 0
           /\ logs = <<>>)
    /\ [][current_stage' # current_stage =>
             \E requester_id \in Users, user_role \in AllRoleInputs,
                reason \in {NoneStr, ValidReason} :
                validate_transition(work_item, logs, artifacts, now, current_stage',
                                    reason, user_role, requester_id).allowed]_vars

\* C14: a log entry holds a reason exactly when it leads to a lower stage; the
\* reason of such an entry is a justification with no whitespace around it and
\* at least 30 characters, and entries to a higher stage, the pipeline's
\* included, hold None.
C14_ReasonOnlyOnRegression ==
    \A i \in 1..Len(logs) :
        LET e == logs[i]
            backward == get_stage_index(e.to_stage) < get_stage_index(e.from_stage)
        IN /\ e.reason # NoneStr <=> backward
           /\ backward => /\ e.reason = strip(e.reason)
                           /\ Len(e.reason) >= MIN_REGRESSION_REASON_LENGTH

\* C14 witness: the log holds an entry to a higher stage with no reason, which
\* was requested with one, and its last entry leads to a lower stage and holds
\* the 30 characters of the padded reason requested.
C14_Witness ==
    /\ Len(logs) >= 2
    /\ logs[1].reason = NoneStr
    /\ get_stage_index(logs[1].to_stage) > get_stage_index(logs[1].from_stage)
    /\ LET e == logs[Len(logs)]
       IN /\ get_stage_index(e.to_stage) < get_stage_index(e.from_stage)
          /\ e.reason = strip(ValidReason)
          /\ e.reason # ValidReason

\* The verdict on a request of the owner evaluated on day t_now
verdict_on(t_now, target_stage, regression_reason, user_role) ==
    validate_transition(work_item, logs, artifacts, t_now, target_stage,
                        regression_reason, user_role, owner_id)

\* A result carries a warning
warned(v) == "warning" \in DOMAIN v.meta

\* C16: the verdict on a request is the same on the day the current stage was
\* entered, today, and on the first day the stage is overdue, and the same for
\* two reasons of one trimmed length of which only one holds a weak keyword; a
\* warning comes only with an allowed result: the overdue warning with an
\* allowed move forward evaluated on an overdue day, the weak-reason warning
\* with an allowed move back whose reason holds a keyword.
C16_WarningsNeverBlock ==
    LET entered == now - get_time_in_current_stage(work_item, logs, now)
        overdue_day == entered + (STAGE_TIMEOUT_DAYS[current_stage] + 1) * TicksPerDay
    IN
    /\ \A t \in StageSet \ {current_stage}, user_role \in {None, "Developer", "Manager"} :
          LET v0 == verdict_on(entered, t, NoneStr, user_role)
              v1 == verdict_on(now, t, NoneStr, user_role)
              v2 == verdict_on(overdue_day, t, NoneStr, user_role)
          IN /\ v0.allowed = v1.allowed /\ v1.allowed = v2.allowed
             /\ ~warned(v0)
             /\ warned(v1) => v1.allowed /\ now >= overdue_day
             /\ warned(v2) <=> v2.allowed
             /\ warned(v2) => v2.meta.warning = <<"overdue">>
    /\ \A t \in back_targets, user_role \in {"Developer", "Manager"},
          n \in {MIN_REGRESSION_REASON_LENGTH - 1, MIN_REGRESSION_REASON_LENGTH} :
          LET plain == verdict(t, padded(text(n)), user_role, owner_id)
              weak == verdict(t, padded(weak_text(n)), user_role, owner_id)
          IN /\ plain.allowed = weak.allowed
             /\ ~warned(plain)
             /\ warned(weak) <=> weak.allowed
             /\ warned(weak) => weak.meta.warning = <<"weak">>

\* C16 witness: the move out of Requirement was carried out on a day on which
\* Requirement was overdue, and then a move back was carried out on a reason
\* that holds a weak keyword and answered 200 with the weak-reason warning.
C16_Witness ==
    /\ Len(logs) = 2
    /\ logs[1].from_stage = "Requirement"
    /\ days(logs[1].transitioned_at) > STAGE_TIMEOUT_DAYS["Requirement"]
    /\ last.op = "transition_stage"
    /\ last.response.status = 200
    /\ warned(last.response.body)
    /\ last.response.body.meta.warning = <<"weak">>
    /\ logs[2].reason = weak_text(MIN_REGRESSION_REASON_LENGTH)

\* The owner's request, as Architect, for Design
architect_verdict == verdict("Design", NoneStr, "Architect", owner_id)

\* C17 as stated: for an item in Requirement with an empty log at which a
\* Requirement Document is recorded, the owner's request as Architect for Design
\* is allowed and its metadata reports regression_count 0.
C17_DocumentSuffices ==
    (current_stage = "Requirement" /\ logs = <<>>
        /\ "Requirement Document" \in recorded("Requirement")) =>
        /\ architect_verdict.allowed
        /\ architect_verdict.meta.regression_count = 0

\* C17, amended: for an item in Requirement with an empty log, the owner's
\* request as Architect for Design is allowed exactly when both a Requirement
\* Document and a Stakeholder Approval are recorded, its metadata reports
\* regression_count 0, and with the Requirement Document alone it is refused
\* naming the missing Stakeholder Approval.
C17_BothArtifactsSuffice ==
    (current_stage = "Requirement" /\ logs = <<>>) =>
        /\ architect_verdict.allowed
              <=> {"Requirement Document", "Stakeholder Approval"} \subseteq recorded("Requirement")
        /\ architect_verdict.meta.regression_count = 0
        /\ recorded("Requirement") \cap required_set("Requirement") = {"Requirement Document"}
              => architect_verdict.message = <<"Cannot advance: missing ", "Stakeholder Approval">>
        /\ transition_response(Request(owner_id, "Architect", "Design", <<>>)).status
              = IF architect_verdict.allowed THEN 200 ELSE 400

\* C17 witness: the first transition of the item, from Requirement to Design, was
\* carried out with both artifacts recorded and answered 200 with
\* regression_count 0.
C17_Witness ==
    /\ Len(logs) = 1
    /\ logs[1].from_stage = "Requirement" /\ logs[1].to_stage = "Design"
    /\ current_stage = "Design"
    /\ last.op = "transition_stage"
    /\ last.response.status = 200
    /\ last.response.body.meta.regression_count = 0
    /\ {"Requirement Document", "Stakeholder Approval"} \subseteq recorded("Requirement")

\* C18: for an item in Implementation whose log counts no regression, the
\* owner's request as Manager for Requirement with a reason of 30 characters or
\* more is allowed and answered 200 reporting regression_count 0, and every step
\* that takes such an item from Implementation to Requirement leaves a log that
\* counts 1 regression and holds 1 backward entry.
C18_FirstRegressionCounts ==
    /\ []((current_stage = "Implementation" /\ count_regressions(logs) = 0) =>
            \A reason \in {ValidReason, padded(weak_text(MIN_REGRESSION_REASON_LENGTH)),
                            text(MIN_REGRESSION_REASON_LENGTH + 1)} :
                LET response == transition_response(
                                    Request(owner_id, "Manager", "Requirement", reason))
                IN /\ verdict("Requirement", reason, "Manager", owner_id).allowed
                   /\ response.status = 200
                   /\ response.body.meta.regression_count = 0)
    /\ [][(current_stage = "Implementation" /\ count_regressions(logs) = 0
              /\ current_stage' = "Requirement") =>
             /\ count_regressions(logs') = 1
             /\ Len(logs') = Len(logs) + 1
             /\ logs'[Len(logs')].from_stage = "Implementation"
             /\ logs'[Len(logs')].to_stage = "Requirement"]_vars

\* C18 witness: the move from Implementation straight back to Requirement was
\* carried out as the first regression of the item; the log counts 1.
C18_Witness ==
    /\ last.op = "transition_stage"
    /\ last.response.status = 200
    /\ last.response.body.meta.regression_count = 0
    /\ current_stage = "Requirement"
    /\ Len(logs) = 3
    /\ logs[3].from_stage = "Implementation" /\ logs[3].to_stage = "Requirement"
    /\ count_regressions(logs) = 1
    /\ backward_moves = 1

\* The targets of the no-op gate and of the validity gate: the current stage, and
\* the names that are not a stage
refused_targets == {current_stage} \cup (AllTargetInputs \ StageSet)

\* C21: a request whose target is the current stage or is not one of the five
\* stages is refused for every requester, role and reason, whatever artifacts
\* are recorded; the owner is told that the item is already in the stage or
\* that the stage is invalid, the handler answers with an error status, and the
\* stage, the log and the artifacts stay as they are.
C21_NoopAndUnknownRejected ==
    /\ [](\A t \in refused_targets :
             /\ \A requester_id \in Requesters, user_role \in AllRoleInputs,
                   reason \in {NoneStr, ValidReason} :
                   ~verdict(t, reason, user_role, requester_id).allowed
             /\ \A user_role \in {None, "Developer", "Manager"} :
                   verdict(t, ValidReason, user_role, owner_id).message
                      = IF t = current_stage THEN <<"Already in stage ", current_stage>>
                        ELSE <<"Invalid stage: ", t>>
             /\ validate_transition(work_item, logs, EmptyBag, now, t, ValidReason,
                                    "Manager", owner_id).allowed = FALSE
             /\ \A user_id \in Users, user_role \in {None, "Manager", "Admin"},
                   reason \in {<<>>, NoneStr, ValidReason} :
                   transition_response(Request(user_id, user_role, t, reason)).status
                      \in {400, 403, 500})
    /\ [][\A t \in refused_targets, user_id \in Users, user_role \in {"Manager", "Admin"} :
             transition_stage(Request(user_id, user_role, t, ValidReason))
                => UNCHANGED <<current_stage, logs, artifacts>>]_vars

\* C21 witness: the item was moved to Design, every required artifact of Design
\* is recorded, the owner's request as Manager for Implementation would be
\* carried out, and the same request for Design and for an unknown stage is
\* answered 400.
C21_Witness ==
    /\ last.op = "add_artifact"
    /\ current_stage = "Design"
    /\ required_set("Design") \subseteq recorded("Design")
    /\ owner_response("Manager", "Implementation").status = 200
    /\ owner_response("Manager", "Design").status = 400
    /\ owner_response("Manager", "Design").body.message = <<"Already in stage ", "Design">>
    /\ owner_response("Manager", "Deployed").status = 400
    /\ owner_response("Manager", "Deployed").body.message = <<"Invalid stage: ", "Deployed">>

\* The session is the owner's, or of a user whose role is Admin
owner_or_admin(session) ==
    session.user_id = owner_id \/ User_query_get(session.user_id).role = "Admin"

\* C22 as stated: a push to main and a merge are refused with 403 for every
\* logged-in user who is neither the owner nor an Admin, and every step that
\* changes the files of main or merges a branch is taken by the owner or by an
\* Admin.
C22_MainOnlyOwnerOrAdmin ==
    /\ [](\A session \in Sessions :
             ~owner_or_admin(session) =>
                /\ \A branch \in {None, "main", "Main"} :
                      push_response(session, "a.py", branch).status = 403
                /\ merge_response(session, " dev ", "dev2").status = 403)
    /\ [][(files_of(code_files', "main") # files_of(code_files, "main")
              \/ last'.op = "merge_code")
             => owner_or_admin(last'.session)]_vars

\* The messages of the gates of validate_transition
forbidden_message ==
    <<"FORBIDDEN", ": Only the workspace owner can request a stage transition.">>

regression_role_message ==
    <<"Unauthorized: Only Managers or Admins can approve a regression.">>

\* C23: of the gates a request fails, the earliest in the order ownership,
\* validity, no-op, quota, direction decides the refusal.  A user who is not the
\* owner gets the ownership refusal for an unknown stage, for the current stage
\* and at the quota; the owner gets the invalid-stage and the already-in-stage
\* refusal also at the quota; at the quota every other stage gets the quota
\* refusal also with artifacts, role and reason missing.  Below the quota a move
\* forward with artifacts missing and a role that is no approver gets the
\* missing-artifacts refusal, and the role refusal once the artifacts are
\* complete; a move back in a role other than Manager or Admin gets the role
\* refusal also with 3 regressions counted and no reason, in the role Manager
\* the ceiling refusal comes before the refusal of a missing or short reason.
C23_EarliestGateDecides ==
    LET at_quota == count_total_transitions(logs) >= MAX_ALLOWED_TRANSITIONS
        at_ceiling == count_regressions(logs) >= MAX_ALLOWED_REGRESSIONS
        complete == required_set(current_stage) \subseteq recorded(current_stage)
    IN
    /\ \A t \in {"Deployed", current_stage, STAGES[1], STAGES[Len(STAGES)]} :
          verdict(t, NoneStr, "Developer", "u2").message = forbidden_message
    /\ verdict("Deployed", NoneStr, None, owner_id).message = <<"Invalid stage: ", "Deployed">>
    /\ verdict(current_stage, NoneStr, None, owner_id).message
          = <<"Already in stage ", current_stage>>
    /\ \A t \in StageSet \ {current_stage} :
          verdict(t, NoneStr, None, owner_id).message = quota_message <=> at_quota
    /\ (~at_quota /\ next_stage # None) =>
          \A user_role \in {None, "Guest"} :
             LET v == verdict(next_stage, NoneStr, user_role, owner_id)
             IN IF ~complete
                THEN v.message[1] = "Cannot advance: missing "
                ELSE v.message = validate_stage_approval(current_stage, user_role)[2]
    /\ ~at_quota =>
          \A t \in back_targets :
             /\ verdict(t, NoneStr, "Developer", owner_id).message = regression_role_message
             /\ verdict(t, NoneStr, "Manager", owner_id).message
                   = IF at_ceiling THEN <<"Maximum regressions reached.">>
                     ELSE <<"Regression justification is required.">>
             /\ verdict(t, text(1), "Admin", owner_id).message
                   = IF at_ceiling THEN <<"Maximum regressions reached.">>
                     ELSE <<"Reason must be at least 30 characters.">>

\* C23 witness: 3 regressions are counted and the item was moved forward again,
\* below the quota; the owner's request in the role Developer to move back with
\* no reason is refused for the role, the same request as Manager for the
\* ceiling, and the request of another user for an unknown stage as forbidden.
C23_Witness ==
    /\ last.op = "transition_stage"
    /\ count_regressions(logs) = MAX_ALLOWED_REGRESSIONS
    /\ count_total_transitions(logs) < MAX_ALLOWED_TRANSITIONS
    /\ current_stage = "Design"
    /\ verdict("Requirement", NoneStr, "Developer", owner_id).message = regression_role_message
    /\ verdict("Requirement", NoneStr, "Manager", owner_id).message
          = <<"Maximum regressions reached.">>
    /\ verdict("Deployed", NoneStr, "Developer", "u2").message = forbidden_message

\* A reference that matches neither pattern of ARTIFACT_QUALITY_RULES
malformed == <<"f","t","p",":","/","/","x">>

\* C24: can_add_artifact allows a submission exactly when the stage is the
\* current one and no log entry leaves it, no artifact of the type is recorded
\* at the stage, and the reference passes the quality check; a submission to a
\* locked stage gets the lock reason also when it is a duplicate or malformed,
\* and a duplicate to an unlocked stage gets the already-exists reason also
\* when its reference is missing or malformed.
C24_LockThenDuplicateThenQuality ==
    \A stage \in StageSet :
      \A artifact_type \in required_set(stage) \cup ExtraTypes,
         reference \in AllReferenceInputs :
        LET res == can_add_artifact(work_item, logs, artifacts, stage, artifact_type, reference)
            past == stage # current_stage
            exited == \E i \in 1..Len(logs) : logs[i].from_stage = stage
            duplicate == artifact_type \in recorded(stage)
            quality == validate_artifact_quality(artifact_type, reference)
        IN /\ res[1] <=> (~past /\ ~exited /\ ~duplicate /\ quality[1])
           /\ past => res[2] = <<"Cannot modify past stage">>
           /\ (~past /\ exited) => res[2] = <<"Stage has already been exited">>
           /\ (~past /\ ~exited /\ duplicate) => res[2] = <<"Artifact already exists in stage">>
           /\ (~past /\ ~exited /\ ~duplicate /\ ~quality[1]) =>
                 res[2] \in {<<"Reference is required">>, <<"Invalid format">>}
           /\ res[1] => res[2] = <<"Artifact can be added">>

\* C24 witness: Implementation is the current stage and was never left, a Source
\* Code Reference was submitted to it, and another one with a malformed
\* reference is answered 400 as a duplicate; a Data Model is recorded at
\* Design, and another one submitted to Design is refused for the lock.
C24_Witness ==
    /\ last.op = "add_artifact"
    /\ current_stage = "Implementation"
    /\ ~was_stage_exited(logs, "Implementation")
    /\ "Source Code Reference" \in recorded("Implementation")
    /\ ~validate_artifact_quality("Source Code Reference", malformed)[1]
    /\ artifact_response("Source Code Reference", malformed)
          = Response(400, <<"Artifact already exists in stage">>)
    /\ "Data Model" \in recorded("Design")
    /\ can_add_artifact(work_item, logs, artifacts, "Design", "Data Model", NoneStr)
          = <<FALSE, <<"Cannot modify past stage">> >>

\* References by what is left of them once trimmed: nothing, a commit id of 7
\* or 40 hexadecimal digits, an http or https address, and others
missing_references == {NoneStr, <<>>, <<" ">>, <<" ", "\n", "\t">>}

commit_references ==
    { <<"f","b","8","8","1","d","3">>, padded(<<"f","b","8","8","1","d","3">>),
      rep("a", 40), padded(rep("0", 40)) }

url_references ==
    { <<"h","t","t","p",":","/","/">>, <<"h","t","t","p",":","/","/","x">>,
      <<"h","t","t","p","s",":","/","/","x">>,
      padded(<<"h","t","t","p","s",":","/","/","x">>) }

other_references ==
    { <<"f","b","8","8","1","d">>, <<"f","b","8","8","1","d","3","0">>,
      <<"F","B","8","8","1","D","3">>, <<"f","b","8","8","1","d","g">>,
      <<"f","b","8"," ","8","1","d","3">>, rep("a", 39), rep("a", 41),
      <<"f","t","p",":","/","/","x">>, <<"H","T","T","P",":","/","/","x">>,
      <<"x","h","t","t","p",":","/","/">>, <<"h","t","t","p",":","/","x">>,
      <<"h","t","t","p","s","s",":","/","/">> }

\* C25: for a type with no quality rule every reference is accepted, none
\* included; for a type with a rule a reference that is missing, empty or blank
\* is refused as required, and of the others exactly those are accepted whose
\* trimmed value is a commit id of 7 or 40 lower-case hexadecimal digits (Source
\* Code Reference) or begins with http:// or https:// (the other four types);
\* the handler records a type not yet recorded at a stage never left exactly
\* when its reference is accepted.
C25_QualityByPattern ==
    LET all == missing_references \cup commit_references \cup url_references
                  \cup other_references
    IN
    /\ \A artifact_type \in (RequiredTypes \cup ExtraTypes) \ DOMAIN ARTIFACT_QUALITY_RULES,
          reference \in all :
          validate_artifact_quality(artifact_type, reference) = <<TRUE, <<"No quality rule">> >>
    /\ \A artifact_type \in DOMAIN ARTIFACT_QUALITY_RULES :
          LET good == IF artifact_type = "Source Code Reference"
                      THEN commit_references ELSE url_references
          IN /\ \A reference \in missing_references :
                   validate_artifact_quality(artifact_type, reference)
                      = <<FALSE, <<"Reference is required">> >>
             /\ \A reference \in good :
                   validate_artifact_quality(artifact_type, reference)
                      = <<TRUE, <<"Reference format valid">> >>
             /\ \A reference \in all \ (missing_references \cup good) :
                   validate_artifact_quality(artifact_type, reference)
                      = <<FALSE, <<"Invalid format">> >>
    /\ ~was_stage_exited(logs, current_stage) =>
          \A artifact_type \in required_set(current_stage) \ recorded(current_stage),
             reference \in all :
             artifact_response(artifact_type, reference).status = 201
                <=> validate_artifact_quality(artifact_type, reference)[1]

\* C25 witness: a Source Code Reference was submitted to Implementation with a
\* commit id padded with whitespace and recorded; an API Specification is not
\* recorded yet, and its submission is answered 400 with no reference and with
\* a commit id, and 201 with an https address.
C25_Witness ==
    /\ last.op = "add_artifact"
    /\ last.response.status = 201
    /\ current_stage = "Implementation"
    /\ ~was_stage_exited(logs, "Implementation")
    /\ recorded("Implementation") = {"Source Code Reference"}
    /\ artifact_response("API Specification", NoneStr)
          = Response(400, <<"Reference is required">>)
    /\ artifact_response("API Specification", <<"f","b","8","8","1","d","3">>)
          = Response(400, <<"Invalid format">>)
    /\ artifact_response("API Specification", <<"h","t","t","p","s",":","/","/","x">>).status
          = 201

\* C26: every step leaves the entries the log holds as they are and in their
\* order; a step that changes the log appends one entry, which leads from the
\* stage the item was in to the stage it is in now and belongs to a request
\* answered 200, and a step of transition_stage on a request that is refused,
\* of another user or of the owner with no role and no reason, leaves the log
\* as it is.
C26_LogAppendOnly ==
    /\ [][/\ Len(logs') >= Len(logs)
           /\ SubSeq(logs', 1, Len(logs)) = logs]_vars
    /\ [][logs' # logs =>
             /\ Len(logs') = Len(logs) + 1
             /\ logs'[Len(logs')].from_stage = current_stage
             /\ logs'[Len(logs')].to_stage = current_stage'
             /\ last'.op \in {"transition_stage", "trigger_pipeline"}
             /\ last'.response.status = 200]_vars
    /\ [][\A t \in StageSet :
             \A r \in {Request("u2", "Manager", t, ValidReason), Request("u1", None, t, <<>>)} :
                (transition_response(r).status # 200 /\ transition_stage(r))
                    => logs' = logs]_vars

\* C26 witness: a transition was carried out on a log that held two entries
\* already, which are still its first two; the owner's request for the current
\* stage is refused.
C26_Witness ==
    /\ last.op = "transition_stage"
    /\ last.response.status = 200
    /\ Len(logs) = 3
    /\ logs[1].from_stage = "Requirement"
    /\ logs[2].from_stage = logs[1].to_stage
    /\ logs[3].to_stage = current_stage
    /\ owner_response("Manager", current_stage).status = 400

\* The time at which the item entered its current stage: that of the last log
\* entry that leads to the stage, or the time of creation
entered_at ==
    LET entries == {i \in 1..Len(logs) : logs[i].to_stage = current_stage}
    IN IF entries = {} THEN work_item.created_at
       ELSE logs[CHOOSE i \in entries : \A j \in entries : j <= i].transitioned_at

\* The first time at which a stage entered at time t is overdue: one whole day
\* more than its timeout has passed
overdue_from(stage, t) == t + (STAGE_TIMEOUT_DAYS[stage] + 1) * TicksPerDay

\* C27: the time in the current stage is the time since the last log entry that
\* leads to the current stage, or since creation if there is none; a move to
\* the next stage that is allowed carries the overdue warning exactly when more
\* whole days than the timeout of the current stage have passed since then:
\* now, half a day before the first overdue time, and at that time.
C27_OverdueFromLatestEntry ==
    /\ get_time_in_current_stage(work_item, logs, now) = now - entered_at
    /\ now >= entered_at
    /\ next_stage # None =>
          LET first == overdue_from(current_stage, entered_at)
          IN \A t_now \in {now, first - TicksPerDay, first - 1, first} :
                LET v == verdict_on(t_now, next_stage, NoneStr, "Manager")
                IN /\ v.allowed <=> required_set(current_stage) \subseteq recorded(current_stage)
                   /\ v.allowed => (warned(v) <=> t_now >= first)
                   /\ warned(v) => v.meta.warning = <<"overdue">>

\* C27 witness: the item left Requirement for Design more than 7 whole days
\* after its creation and was moved back to Requirement; the owner's request
\* for Design is allowed and carries no warning, because the days are counted
\* from the move back.
C27_Witness ==
    /\ last.op = "transition_stage"
    /\ Len(logs) = 2
    /\ logs[1].from_stage = "Requirement" /\ logs[1].to_stage = "Design"
    /\ logs[1].transitioned_at >= overdue_from("Requirement", work_item.created_at)
    /\ logs[2].to_stage = "Requirement"
    /\ current_stage = "Requirement"
    /\ now >= overdue_from("Requirement", work_item.created_at)
    /\ verdict("Design", NoneStr, "Manager", owner_id).allowed
    /\ ~warned(verdict("Design", NoneStr, "Manager", owner_id))

\* C28 as stated: last_transition_at is null exactly while the log is empty,
\* and otherwise is the time of the newest log entry.
C28_LastTransitionAtIsNewest ==
    /\ last_transition_at = <<>> <=> logs = <<>>
    /\ logs # <<>> =>
          /\ last_transition_at # <<>>
          /\ last_transition_at = logs[Len(logs)].transitioned_at

\* C29: a request that was evaluated is committed whatever was committed since.
\* Every request in flight was allowed when it was evaluated; every step that
\* takes a request out of flight appends its log entry, with the from_stage it
\* read, and sets the stage to its target, also when the item has left that
\* stage, 20 transitions are logged or 3 regressions are counted by then; and
\* the log exceeds the ceilings by no more than the number of entries committed
\* on a stage the item had left.
C29_EvaluatedRequestsCommit ==
    /\ [](\A p \in BagToSet(pending) :
             /\ p.response.status = 200
             /\ p.response.body.allowed
             /\ p.response.body.meta.total_transitions < MAX_ALLOWED_TRANSITIONS)
    /\ [][\A p \in BagToSet(pending) :
             pending' = pending (-) SetToBag({p}) =>
                /\ logs' = Append(logs, p.log)
                /\ current_stage' = p.log.to_stage]_vars
    /\ [](/\ count_total_transitions(logs) <= MAX_ALLOWED_TRANSITIONS + stale_commits(logs)
          /\ count_regressions(logs) <= MAX_ALLOWED_REGRESSIONS + stale_commits(logs)
          /\ backward_moves <= MAX_ALLOWED_REGRESSIONS + stale_commits(logs))

\* C29 witness: two requests evaluated on the same log were both committed: the
\* last two log entries leave the same stage, more than 20 transitions are
\* logged, and more than 3 regressions are counted.
C29_Witness ==
    /\ last.op = "transition_stage"
    /\ Len(logs) > MAX_ALLOWED_TRANSITIONS
    /\ count_regressions(logs) > MAX_ALLOWED_REGRESSIONS
    /\ logs[Len(logs)].from_stage = logs[Len(logs) - 1].from_stage
    /\ last.response.body.meta.total_transitions < Len(logs) - 1

\* The refused submissions of an artifact the properties name
refused_submissions ==
    { <<None, NoneStr>>, <<"Source Code Reference", malformed>>,
      <<"Requirement Document", NoneStr>>, <<"Data Model", NoneStr>> }

\* C30: evaluating a request changes nothing.  A step of transition_stage or of
\* add_artifact on a request that is refused leaves every variable as it is, so
\* that the same request gets the same answer again; and a refusal
\* of validate_transition does not depend on the time of the evaluation: later
\* the same request is refused with the same message and the same metadata.
C30_RefusalChangesNothing ==
    /\ [][\A t \in StageSet \cup {"Deployed"} :
             \A r \in {Request("u2", "Manager", t, ValidReason),
                        Request("u1", "Manager", t, text(1))} :
                (transition_response(r).status # 200 /\ transition_stage(r))
                    => UNCHANGED vars]_vars
    /\ [][\A a \in refused_submissions :
             (artifact_response(a[1], a[2]).status # 201 /\ add_artifact(a[1], a[2]))
                => UNCHANGED vars]_vars
    /\ [](\A t \in StageSet \cup {"Deployed"}, user_role \in {None, "Developer", "Manager"},
             reason \in {NoneStr, text(1)} :
             LET v == verdict_on(now, t, reason, user_role)
             IN ~v.allowed =>
                   \A later \in {now + 1,
                                  now + (STAGE_TIMEOUT_DAYS[current_stage] + 1) * TicksPerDay} :
                       verdict_on(later, t, reason, user_role) = v)

\* C30 witness: the item was moved to Implementation, where no artifact is
\* recorded; the owner's request for Testing is answered 400 for the missing
\* artifacts and the submission of a Source Code Reference with a malformed
\* reference is answered 400.
C30_Witness ==
    /\ last.op = "transition_stage"
    /\ current_stage = "Implementation"
    /\ recorded("Implementation") = {}
    /\ owner_response("Manager", "Testing").status = 400
    /\ owner_response("Manager", "Testing").body.message[1] = "Cannot advance: missing "
    /\ artifact_response("Source Code Reference", malformed) = Response(400, <<"Invalid format">>)

\* C31: in every state reached by pushes, branch creations, merges and deletions
\* the branch listing succeeds and contains "main", and a request to create or to
\* delete a branch named "main" is refused.
C31_BranchListingHasMain ==
    /\ branches_response.status = 200
    /\ "main" \in branches_response.body.branches
    /\ \A name \in {"main", "Main", " main"}, from_branch \in FromInputs :
           create_branch_response(name, from_branch).status = 400
    /\ \A session \in Sessions, name \in {"main", "Main", "MAIN"} :
           delete_branch_response(session, name).status = 400
    /\ \A b \in workspace_branches : lower_name(b.name) # "main"

\* The stage the newest log entry led to, or the stage of creation
stage_by_log == IF logs = <<>> THEN "Requirement" ELSE logs[Len(logs)].to_stage

\* C32: with transitions and pipeline triggers run one at a time the log is a
\* chain: the first entry leaves Requirement, every later entry leaves the stage
\* the entry before it led to, no entry leads to the stage it leaves, and the
\* current stage is the one the last entry led to (Requirement with no entry).
C32_LogIsChain ==
    /\ logs # <<>> => logs[1].from_stage = "Requirement"
    /\ \A i \in 2..Len(logs) : logs[i].from_stage = logs[i-1].to_stage
    /\ \A i \in 1..Len(logs) : logs[i].from_stage # logs[i].to_stage
    /\ current_stage = stage_by_log

\* C32 witness: the pipeline has just moved the item to Testing, after a history
\* that holds a move back over more than one stage.
C32_Witness ==
    /\ last.op = "trigger_pipeline"
    /\ Len(logs) >= 4
    /\ logs[Len(logs)] = TransitionLog("Implementation", "Testing", NoneStr, now)
    /\ \E i \in 1..Len(logs) :
           get_stage_index(logs[i].to_stage) < get_stage_index(logs[i].from_stage) - 1
    /\ current_stage = "Testing"

\* C33: with the operations run one at a time, the regressions count_regressions
\* counts (adjacent entries whose to_stage goes down) are as many as the log
\* entries that lead to a stage below the one they leave, so no more than 3
\* backward moves are ever made.
C33_CountIsBackwardMoves ==
    /\ count_regressions(logs) = backward_moves
    /\ backward_moves <= MAX_ALLOWED_REGRESSIONS
    /\ \A i \in 2..Len(logs) :
           get_stage_index(logs[i].to_stage) < get_stage_index(logs[i-1].to_stage)
           <=> get_stage_index(logs[i].to_stage) < get_stage_index(logs[i].from_stage)

\* C33 witness: the third backward move has just been carried out, from the last
\* stage to the first, and both counts are 3.
C33_Witness ==
    /\ last.op = "transition_stage"
    /\ logs # <<>>
    /\ logs[Len(logs)].from_stage = "Release"
    /\ logs[Len(logs)].to_stage = "Requirement"
    /\ count_regressions(logs) = MAX_ALLOWED_REGRESSIONS
    /\ backward_moves = MAX_ALLOWED_REGRESSIONS

\* The item went back out of the stage and a type the stage requires is not
\* recorded at it
stuck(stage) ==
    /\ \E i \in 1..Len(logs) :
           /\ logs[i].from_stage = stage
           /\ get_stage_index(logs[i].to_stage) < get_stage_index(stage)
    /\ ~(required_set(stage) \subseteq recorded(stage))

\* The item stays stuck at a stage it is stuck at: it stays at or below the
\* stage, in the stage every forward request and every submission of a type the
\* stage requires is refused, and no step takes it forward out of the stage or
\* records what the stage lacks
stays_stuck ==
    /\ [](\A stage \in StageSet : stuck(stage) =>
             /\ get_stage_index(current_stage) <= get_stage_index(stage)
             /\ current_stage = stage =>
                    /\ \A user_role \in Roles, requester_id \in Requesters :
                           ~verdict(stage_after(stage), NoneStr, user_role, requester_id).allowed
                    /\ \A artifact_type \in required_set(stage), reference \in DeepReferences :
                           artifact_response(artifact_type, reference).status = 400)
    /\ [][\A stage \in StageSet : stuck(stage) =>
             /\ stuck(stage)'
             /\ ~(/\ current_stage = stage
                  /\ get_stage_index(current_stage') > get_stage_index(stage))]_vars

\* C34 as stated: once the item has gone back out of a stage S that lacks a
\* required artifact, transition requests and artifact submissions never record
\* what S lacks nor take the item forward out of S, and the item is never in
\* Release afterwards.
C34_StuckThenNoRelease ==
    /\ stays_stuck
    /\ [](\A stage \in StageSet : stuck(stage) => current_stage # "Release")

\* C34, amended: once the item has gone back out of a stage S that lacks a
\* required artifact, transition requests and artifact submissions never record
\* what S lacks nor take the item forward out of S; the item is never in a stage
\* after S afterwards, so never in Release unless S is Release itself.
C34_StuckStageStaysStuck ==
    /\ stays_stuck
    /\ [](\A stage \in StageSet \ {"Release"} : stuck(stage) => current_stage # "Release")

\* C34 witness: the item went back out of Design with a Design artifact missing,
\* is in Design again, and the owner's request as Manager for Implementation is
\* answered 400.
C34_Witness ==
    /\ stuck("Design")
    /\ current_stage = "Design"
    /\ last.op = "transition_stage"
    /\ logs[Len(logs)].from_stage = "Requirement"
    /\ owner_response("Manager", "Implementation").status = 400

\* The requests of logged-in users who are not the owner of the item and whose
\* account does not have the role Admin
outsider_requests ==
    {r \in Requests : r.user_id # owner_id /\ User_query_get(r.user_id).role # "Admin"}

\* C35: no transition request of a logged-in user who is not the owner and whose
\* account role is not Admin changes the stage or the log of the item, whatever
\* role and reason the request carries.
C35_OutsiderNeverMoves ==
    [][\A r \in outsider_requests :
           transition_stage(r) => UNCHANGED <<current_stage, logs>>]_vars

\* The stages some log entry leaves for the stage after them
left_forward ==
    {logs[i].from_stage : i \in {j \in 1..Len(logs) :
        get_stage_index(logs[j].to_stage) = get_stage_index(logs[j].from_stage) + 1}}

\* C36: with the operations run one at a time, every stage a log entry leaves
\* forward has all its required types recorded; no step removes an artifact; and
\* when the item is again in such a stage, the owner's request for the next
\* stage is allowed in every approver role of the stage as the artifacts stand.
C36_LeftForwardStaysComplete ==
    /\ [](\A stage \in left_forward :
             /\ required_set(stage) \subseteq recorded(stage)
             /\ current_stage = stage =>
                    \A user_role \in REQUIRED_APPROVER_ROLES[stage] :
                        verdict(next_stage, NoneStr, user_role, owner_id).allowed)
    /\ [][\A a \in BagToSet(artifacts) : CopiesIn(a, artifacts') >= CopiesIn(a, artifacts)]_vars

\* C36 witness: the item has gone back into Implementation, which it had left
\* forward before, and the owner's request as Developer for Testing is answered
\* 200.
C36_Witness ==
    /\ last.op = "transition_stage"
    /\ logs # <<>>
    /\ logs[Len(logs)].to_stage = "Implementation"
    /\ get_stage_index(logs[Len(logs)].from_stage) > get_stage_index("Implementation")
    /\ current_stage = "Implementation"
    /\ "Implementation" \in left_forward
    /\ transition_response(Request(owner_id, "Developer", "Testing", <<>>)).status = 200

\* C37: a submission waits for its insert only if can_add_artifact allowed it
\* for the stage that was current, and every step that takes a submission out
\* of flight inserts its artifact and answers 201, whatever is recorded for the
\* stage and the type by then; nothing in the rows keeps a second artifact of a
\* (stage, type) out.
C37_EvaluatedSubmissionsInsert ==
    /\ [](\A p \in BagToSet(submissions) :
             /\ p.response.status = 201
             /\ \/ p.artifact.stage = STAGES[1]
                \/ \E i \in 1..Len(logs) : logs[i].to_stage = p.artifact.stage
             /\ p.artifact.artifact_type \in required_set(p.artifact.stage))
    /\ [][\A p \in BagToSet(submissions) :
             CopiesIn(p, submissions') < CopiesIn(p, submissions) =>
                 /\ CopiesIn(p.artifact, artifacts') = CopiesIn(p.artifact, artifacts) + 1
                 /\ last' = [op |-> "add_artifact", response |-> p.response]]_vars

\* C37 witness: two submissions of one type for the current stage were evaluated
\* before either was inserted, both are inserted, and the stage holds two
\* artifacts of the type.
C37_Witness ==
    /\ last.op = "add_artifact"
    /\ last.response.status = 201
    /\ submissions = EmptyBag
    /\ \E a \in BagToSet(artifacts) :
           /\ a.stage = current_stage
           /\ CopiesIn(a, artifacts) = 2

====
